---- MODULE Spec2Model ----
(***************************************************************************)
(* pass-secret-service: the Secret Service D-Bus daemon on top of a        *)
(* GPG-encrypted password store.  The model covers the secret store        *)
(* (src/src/secret_store.rs), the D-Bus object graph                       *)
(* (src/src/dbus_server/*.rs) and the session authorisation                *)
(* (src/src/dbus_server/session.rs).  In the specifications Spec, SpecOk,  *)
(* SpecIndex and SpecSession every D-Bus handler is one action and the     *)
(* handlers run one at a time; in the specifications of concurrent calls a *)
(* handler is a task that takes one step per await of the handler.         *)
(***************************************************************************)
EXTENDS Integers, Sequences, FiniteSets, TLC

VARIABLES
    dirs,                \* collection ids whose directory exists under secret-service/
    files,               \* (collection, secret) -> payload of {secret}.gpg, or NoFile
    collection_dbs,      \* keys of SecretStore.collection_dbs
    labels,              \* LABELS_TABLE of collections.redb: collection -> label
    aliases,             \* ALIASES_TABLE: alias -> collection id
    aliases_reverse,     \* ALIASES_TABLE_REVERSE: set of <<collection id, alias>>
    attributes,          \* ATTRIBUTES_TABLE of every collection db: <<collection, k, v, secret>>
    attributes_reverse,  \* ATTRIBUTES_TABLE_REVERSE: (collection, secret) -> {attribute map},
                         \* {} when the table has no entry for the secret
    secret_labels,       \* LABELS_TABLE of every collection db: (collection, secret) -> label
    objects,             \* the bus library's interface registry: object path -> interface
    last_access,         \* Item.last_access of the item objects: (collection, secret) -> client
    last,                \* the call handled last: its reply and the signals it emitted
    tasks,               \* the handlers in flight: task -> the position and locals of its call
    watchers,            \* the task Session::new spawns: session id -> its position, the
                         \* name it watches, its end of the oneshot channel and its stream
    connected,           \* the clients that own their unique name on the bus
    pure                 \* the function or call noted last: its arguments and its value

vars == <<dirs, files, collection_dbs, labels, aliases, aliases_reverse, attributes,
          attributes_reverse, secret_labels, objects, last_access, last, tasks,
          watchers, connected, pure>>

\* the state of the tasks, which a handler that runs as one action leaves alone
taskVars == <<tasks, watchers, connected, pure>>

\* the watcher tasks of the sessions and the clients on the bus
watchVars == <<watchers, connected>>

-----------------------------------------------------------------------------
(* Bounds of the model *)

\* how many collection ids nanoid can produce
NumCollectionIds == 2
\* how many secret ids nanoid can produce
NumSecretIds == 2
\* how many session ids nanoid can produce
NumSessionIds == 1
\* how many clients are connected to the bus
NumClients == 2

CollectionIdPool == <<"c1", "c2", "c3", "c4">>
SecretIdPool == <<"s1", "s2", "s3", "s4">>
SessionIdPool == <<"x1", "x2", "x3">>
ClientPool == <<":1.1", ":1.2", ":1.3", ":1.4">>

\* the ids create_collection may make
NewIds == {CollectionIdPool[i] : i \in 1..NumCollectionIds}
\* the collection ids: those, and the name of a directory that create_collection
\* never makes but that may be put under secret-service/ by hand
ColIds == NewIds \cup {"default"}
SecIds == {SecretIdPool[i] : i \in 1..NumSecretIds}
SessionIds == {SessionIdPool[i] : i \in 1..NumSessionIds}
Clients == {ClientPool[i] : i \in 1..NumClients}

\* the names of the model: the names the clients pass and their slugs
Names == {"default", "Work", "work", ""}
\* names the clients pass to CreateCollection, ReadAlias and SetAlias
GivenNames == {"default", "Work", ""}
\* payloads of secrets
Payloads == {"hunter2", "swordfish"}
\* attribute maps the clients pass: sets of <<key, value>> with one value per key
AttrPairs == {<<"a", "1">>, <<"b", "1">>}
AttrMaps == {m \in SUBSET AttrPairs : \A p, q \in m : p[1] = q[1] => p = q}
\* labels the clients pass
GivenLabels == {"L"}
\* how many item paths a client passes to GetSecrets
MaxItems == 2
\* handlers that may be in flight at once
NumTasks == 2
\* how many threads the pool of spawn_blocking has
PoolSize == 1
\* how long the strings given to slugify are
MaxLen == 3
Tasks == 1..NumTasks

None == "none"
NoFile == "nofile"

-----------------------------------------------------------------------------
(* slugify *)

Spelling ==
    [n \in Names |->
        CASE n = "default" -> <<"d", "e", "f", "a", "u", "l", "t">>
          [] n = "Work" -> <<"W", "o", "r", "k">>
          [] n = "work" -> <<"w", "o", "r", "k">>
          [] OTHER -> <<>>]

Lower == <<"a", "b", "c", "d", "e", "f", "g", "h", "i", "j", "k", "l", "m",
           "n", "o", "p", "q", "r", "s", "t", "u", "v", "w", "x", "y", "z">>
Upper == <<"A", "B", "C", "D", "E", "F", "G", "H", "I", "J", "K", "L", "M",
           "N", "O", "P", "Q", "R", "S", "T", "U", "V", "W", "X", "Y", "Z">>
Digits == <<"0", "1", "2", "3", "4", "5", "6", "7", "8", "9">>

Range(f) == {f[i] : i \in DOMAIN f}

is_ascii_alphanumeric(ch) == ch \in Range(Lower) \cup Range(Upper) \cup Range(Digits)

to_ascii_lowercase(ch) ==
    IF ch \in Range(Upper) THEN Lower[CHOOSE i \in DOMAIN Upper : Upper[i] = ch] ELSE ch

RECURSIVE slugify_loop(_, _, _, _)
slugify_loop(chars, i, after_underscore, slugified) ==
    IF i > Len(chars) THEN slugified
    ELSE IF is_ascii_alphanumeric(chars[i])
         THEN slugify_loop(chars, i + 1, FALSE, Append(slugified, to_ascii_lowercase(chars[i])))
         ELSE IF ~after_underscore
              THEN slugify_loop(chars, i + 1, TRUE, Append(slugified, "_"))
              ELSE slugify_loop(chars, i + 1, after_underscore, slugified)

slugify_chars(chars) == slugify_loop(chars, 1, TRUE, <<>>)

\* slugify on the names of the model: the slug of every name is again a name
SlugOf == [n \in Names |-> CHOOSE s \in Names : Spelling[s] = slugify_chars(Spelling[n])]
slugify(name) == SlugOf[name]

DEFAULT_COLLECTION_NAME == "default"

Aliases == {slugify(n) : n \in Names} \ {""}

-----------------------------------------------------------------------------
(* Object paths *)

EMPTY_PATH == <<>>
collection_path(collection_id) == <<"collection", collection_id>>
secret_path(collection_id, secret_id) == <<"collection", collection_id, secret_id>>
alias_path(alias) == <<"aliases", alias>>
secret_alias_path(alias, secret_id) == <<"aliases", alias, secret_id>>
session_path(session_id) == <<"session", session_id>>
SERVICE_PATH == <<"service">>

CollectionPaths == {collection_path(c) : c \in ColIds} \cup {alias_path(a) : a \in Aliases}
ItemPaths == {secret_path(c, s) : c \in ColIds, s \in SecIds}
                \cup {secret_alias_path(a, s) : a \in Aliases, s \in SecIds}
SessionPaths == {session_path(x) : x \in SessionIds}
Paths == CollectionPaths \cup ItemPaths \cup SessionPaths

\* the interfaces the object server hosts
NoObject == [iface |-> "none", collection_id |-> "", id |-> "", client_name |-> ""]
CollectionObject(collection_id) ==
    [iface |-> "Collection", collection_id |-> collection_id, id |-> "", client_name |-> ""]
ItemObject(collection_id, secret_id) ==
    [iface |-> "Item", collection_id |-> collection_id, id |-> secret_id, client_name |-> ""]
SessionObject(client_name) ==
    [iface |-> "Session", collection_id |-> "", id |-> "", client_name |-> client_name]

\* ObjectServer::interface: the interface of the type at the path, if there is one
HasInterface(objs, path, iface) == path \in DOMAIN objs /\ objs[path].iface = iface
\* ObjectServer::at: adds the interface unless the path already hosts one of the type
At(objs, path, obj) ==
    IF path \in DOMAIN objs /\ objs[path].iface = "none" THEN [objs EXCEPT ![path] = obj] ELSE objs
\* a variant of ObjectServer::remove that removes nothing
Remove_nothing(objs, path, iface) == objs

\* ObjectServer::remove, through try_interface: a missing interface is no error
Remove(objs, path, iface) ==
    IF HasInterface(objs, path, iface) THEN [objs EXCEPT ![path] = NoObject] ELSE objs

-----------------------------------------------------------------------------
(* The secret store (src/src/secret_store.rs).  An operation takes the store  *)
(* state S, a record of the store's variables, and gives the state it leaves, *)
(* whether it returned Ok, and its value.                                     *)

Store ==
    [dirs |-> dirs, files |-> files, collection_dbs |-> collection_dbs, labels |-> labels,
     aliases |-> aliases, aliases_reverse |-> aliases_reverse, attributes |-> attributes,
     attributes_reverse |-> attributes_reverse, secret_labels |-> secret_labels]

Ok(S, val) == [st |-> S, ok |-> TRUE, val |-> val]
\* Err(io::ErrorKind::NotFound) and the other errors: the state the failed call leaves
Err(S) == [st |-> S, ok |-> FALSE, val |-> None]

\* PasswordStore::ensure_dirs on a collection directory
ensure_dirs(S, collection_id) == [S EXCEPT !.dirs = @ \cup {collection_id}]

\* the secrets of a collection: the .gpg files of its directory
SecretsOf(S, collection_id) == {s \in SecIds : S.files[<<collection_id, s>>] # NoFile}

\* SecretStore::list_secrets: PasswordStore::list_items makes the directory first
list_secrets(S, collection_id) ==
    Ok(ensure_dirs(S, collection_id), SecretsOf(S, collection_id))

\* SecretStore::get_alias
get_alias(S, alias) ==
    IF alias \in DOMAIN S.aliases /\ S.aliases[alias] # None
    THEN Ok(S, S.aliases[alias])
    ELSE Err(S)

\* SecretStore::list_aliases_for_collection
list_aliases_for_collection(S, collection_id) ==
    Ok(S, {a \in Aliases : <<collection_id, a>> \in S.aliases_reverse})

\* a variant of set_alias that leaves the alias in the alias set of its old target
set_alias_keeps_old(S, alias, target) ==
    IF target # None
    THEN Ok([S EXCEPT !.aliases[alias] = target,
                      !.aliases_reverse = @ \cup {<<target, alias>>}], None)
    ELSE Ok([S EXCEPT !.aliases[alias] = None], None)

\* a variant of set_alias that removes the alias from the old target's list after
\* it has added it to the new target's
set_alias_remove_last(S, alias, target) ==
    LET old_target == S.aliases[alias]
        added == IF target # None THEN S.aliases_reverse \cup {<<target, alias>>}
                 ELSE S.aliases_reverse
        removed == IF old_target # None THEN added \ {<<old_target, alias>>} ELSE added
    IN  Ok([S EXCEPT !.aliases[alias] = target, !.aliases_reverse = removed], None)

\* SecretStore::set_alias with target Some(id) or None
set_alias(S, alias, target) ==
    LET old_target == S.aliases[alias]
        removed == IF old_target # None
                   THEN S.aliases_reverse \ {<<old_target, alias>>}
                   ELSE S.aliases_reverse
    IN  IF target # None
        THEN Ok([S EXCEPT !.aliases[alias] = target,
                          !.aliases_reverse = removed \cup {<<target, alias>>}], None)
        ELSE Ok([S EXCEPT !.aliases[alias] = None, !.aliases_reverse = removed], None)

\* the per-collection database opened by open_db on a new attributes.redb
fresh_db(S, collection_id) ==
    [S EXCEPT !.attributes = {e \in @ : e[1] # collection_id},
              !.attributes_reverse =
                  [p \in DOMAIN @ |-> IF p[1] = collection_id THEN {} ELSE @[p]],
              !.secret_labels =
                  [p \in DOMAIN @ |-> IF p[1] = collection_id THEN None ELSE @[p]]]

\* a variant of create_collection that keeps the label of an existing collection
create_collection_keeps_label(S, label, alias, new_id) ==
    LET existing == alias # None /\ S.aliases[alias] # None
        id == IF existing THEN S.aliases[alias] ELSE new_id
        S0 == IF alias # None /\ ~existing
              THEN [S EXCEPT !.aliases[alias] = id, !.aliases_reverse = @ \cup {<<id, alias>>}]
              ELSE S
        S1 == IF existing THEN S
              ELSE [S0 EXCEPT !.labels[id] = IF label # None THEN label
                                             ELSE "Untitled Collection"]
        S2 == IF id \notin S1.collection_dbs
              THEN [fresh_db(ensure_dirs(S1, id), id) EXCEPT !.collection_dbs = @ \cup {id}]
              ELSE S1
    IN  Ok(S2, id)

\* SecretStore::create_collection; new_id is the id format!("{}_{}", slug, nanoid) gives
create_collection_tx(S, label, alias, new_id) ==
    LET had_provided_label == label # None
        the_label == IF had_provided_label THEN label ELSE "Untitled Collection"
        existing == alias # None /\ S.aliases[alias] # None
        id == IF existing THEN S.aliases[alias] ELSE new_id
        S1 == IF existing
              THEN IF had_provided_label \/ S.labels[id] = None
                   THEN [S EXCEPT !.labels[id] = the_label]
                   ELSE S
              ELSE LET S0 == IF alias # None
                             THEN [S EXCEPT
                                     !.aliases[alias] = id,
                                     !.aliases_reverse =
                                        (IF S.aliases[alias] # None
                                         THEN @ \ {<<S.aliases[alias], alias>>}
                                         ELSE @) \cup {<<id, alias>>}]
                             ELSE S
                   IN  [S0 EXCEPT !.labels[id] = the_label]
    IN  Ok(S1, id)

\* SecretStore::create_collection after the transaction: the directory and the
\* database of a collection that collection_dbs does not hold
create_collection_db(S1, id) ==
    IF id \notin S1.collection_dbs
    THEN [fresh_db(ensure_dirs(S1, id), id) EXCEPT !.collection_dbs = @ \cup {id}]
    ELSE S1

create_collection(S, label, alias, new_id) ==
    LET r == create_collection_tx(S, label, alias, new_id)
    IN  Ok(create_collection_db(r.st, r.val), r.val)

\* a variant of delete_collection that leaves the aliases of the collection
delete_collection_keeps_aliases(S, collection_id) ==
    LET S1 == [fresh_db(S, collection_id) EXCEPT !.collection_dbs = @ \ {collection_id}]
        S2 == [S1 EXCEPT !.dirs = @ \ {collection_id},
                         !.files = [p \in DOMAIN @ |->
                                      IF p[1] = collection_id THEN NoFile ELSE @[p]],
                         !.labels[collection_id] = None]
    IN  IF collection_id \notin S.dirs THEN Err(S1) ELSE Ok(S2, None)

\* SecretStore::delete_collection
delete_collection(S, collection_id) ==
    LET S1 == [fresh_db(S, collection_id) EXCEPT !.collection_dbs = @ \ {collection_id}]
        S2 == [S1 EXCEPT !.dirs = @ \ {collection_id},
                         !.files = [p \in DOMAIN @ |->
                                      IF p[1] = collection_id THEN NoFile ELSE @[p]]]
        gone == {a \in Aliases : <<collection_id, a>> \in S.aliases_reverse}
        S3 == [S2 EXCEPT !.aliases = [a \in DOMAIN @ |-> IF a \in gone THEN None ELSE @[a]],
                         !.aliases_reverse = {e \in @ : e[1] # collection_id},
                         !.labels[collection_id] = None]
    IN  IF collection_id \notin S.dirs THEN Err(S1) ELSE Ok(S3, None)

\* PasswordStore::write_password
write_password(S, collection_id, secret_id, value) ==
    [ensure_dirs(S, collection_id) EXCEPT !.files[<<collection_id, secret_id>>] = value]

Edges(collection_id, secret_id, attrs) ==
    {<<collection_id, p[1], p[2], secret_id>> : p \in attrs}

\* a variant of the transaction of create_secret that adds no forward edges
create_secret_tx_no_edges(S1, collection_id, label, attrs, secret_id) ==
    LET key == <<collection_id, secret_id>>
        S2 == [S1 EXCEPT
                 !.secret_labels[key] = IF label # None THEN label ELSE "Untitled Secret",
                 !.attributes_reverse[key] = {attrs}]
    IN  IF collection_id \notin S1.collection_dbs THEN Err(S1) ELSE Ok(S2, secret_id)

\* SecretStore::create_secret after the file is written: the lookup of the
\* collection database and the write transaction
create_secret_tx(S1, collection_id, label, attrs, secret_id) ==
    LET key == <<collection_id, secret_id>>
        S2 == [S1 EXCEPT
                 !.secret_labels[key] = IF label # None THEN label ELSE "Untitled Secret",
                 !.attributes = @ \cup Edges(collection_id, secret_id, attrs),
                 !.attributes_reverse[key] = {attrs}]
    IN  IF collection_id \notin S1.collection_dbs THEN Err(S1) ELSE Ok(S2, secret_id)

\* SecretStore::create_secret; secret_id is the id nanoid gives
create_secret(S, collection_id, label, secret, attrs, secret_id) ==
    create_secret_tx(write_password(S, collection_id, secret_id, secret), collection_id,
                     label, attrs, secret_id)

\* SecretStore::set_secret
set_secret(S, collection_id, secret_id, value) ==
    Ok(write_password(S, collection_id, secret_id, value), None)

\* SecretStore::set_secret_label
set_secret_label(S, collection_id, secret_id, label) ==
    IF collection_id \notin S.collection_dbs THEN Err(S)
    ELSE Ok([S EXCEPT !.secret_labels[<<collection_id, secret_id>>] = label], None)

\* SecretStore::set_secret_attrs
set_secret_attrs(S, collection_id, secret_id, attrs) ==
    LET key == <<collection_id, secret_id>>
        old_attrs == S.attributes_reverse[key]
        removed == S.attributes \ UNION {Edges(collection_id, secret_id, o) : o \in old_attrs}
    IN  IF collection_id \notin S.collection_dbs THEN Err(S)
        ELSE Ok([S EXCEPT !.attributes_reverse[key] = {attrs},
                          !.attributes = removed \cup Edges(collection_id, secret_id, attrs)],
                None)

\* SecretStore::delete_secret
delete_secret(S, collection_id, secret_id) ==
    LET key == <<collection_id, secret_id>>
        S1 == [S EXCEPT !.files[key] = NoFile]
        attrs == S1.attributes_reverse[key]
    IN  IF collection_id \notin S1.collection_dbs \/ attrs = {} THEN Err(S1)
        ELSE Ok([S1 EXCEPT !.attributes_reverse[key] = {},
                           !.attributes =
                               @ \ UNION {Edges(collection_id, secret_id, o) : o \in attrs}],
                None)

\* SecretStore::read_secret
read_secret(S, collection_id, secret_id) ==
    IF S.files[<<collection_id, secret_id>>] # NoFile
    THEN Ok(S, S.files[<<collection_id, secret_id>>])
    ELSE Err(S)

\* search_collection on the database of a collection; first is the pair the
\* HashMap iterator of attrs yields first
search_db(S, collection_id, attrs, first) ==
    IF attrs = {} THEN {}
    ELSE LET initial_matches ==
                 {s \in SecIds : <<collection_id, first[1], first[2], s>> \in S.attributes}
         IN  {s \in initial_matches :
                 \E secret_attrs \in S.attributes_reverse[<<collection_id, s>>] :
                     \A p \in attrs \ {first} : p \in secret_attrs}

\* SecretStore::search_collection
search_collection(S, collection_id, attrs, first) ==
    IF collection_id \notin S.collection_dbs THEN Err(S)
    ELSE Ok(S, search_db(S, collection_id, attrs, first))

-----------------------------------------------------------------------------
(* The D-Bus handlers (src/src/dbus_server).  The record last holds the reply *)
(* of the call handled last and the signals the call emitted, in order.       *)

Reply(op, result, ret, secrets, signals, old) ==
    [op |-> op, result |-> result, ret |-> ret, secrets |-> secrets, signals |-> signals,
     old |-> old]

Signal(path, name, arg) == [path |-> path, name |-> name, arg |-> arg]

SetStore(S) ==
    /\ dirs' = S.dirs
    /\ files' = S.files
    /\ collection_dbs' = S.collection_dbs
    /\ labels' = S.labels
    /\ aliases' = S.aliases
    /\ aliases_reverse' = S.aliases_reverse
    /\ attributes' = S.attributes
    /\ attributes_reverse' = S.attributes_reverse
    /\ secret_labels' = S.secret_labels

storeVars == <<dirs, files, collection_dbs, labels, aliases, aliases_reverse, attributes,
               attributes_reverse, secret_labels>>

\* a list holding the elements of a set, in the order the table iterates them
SeqOf(set) ==
    CHOOSE q \in [1..Cardinality(set) -> set] : \A e \in set : \E i \in DOMAIN q : q[i] = e

RemoveAll(objs, paths, iface) ==
    [p \in DOMAIN objs |-> IF p \in paths /\ objs[p].iface = iface THEN NoObject ELSE objs[p]]

AtAll(objs, paths, obj) ==
    [p \in DOMAIN objs |-> IF p \in paths /\ objs[p].iface = "none" THEN obj ELSE objs[p]]

\* a variant of broadcast_collection_signal that emits on the canonical path first
broadcast_canonical_first(S, collection_id, name, data_path) ==
    LET als == SeqOf(list_aliases_for_collection(S, collection_id).val)
    IN  <<Signal(collection_path(collection_id), name, data_path)>>
        \o [i \in 1..Len(als) |-> Signal(alias_path(als[i]), name, data_path)]
        \o <<Signal(SERVICE_PATH, "CollectionChanged", collection_path(collection_id))>>

\* Collection::broadcast_collection_signal: the signals it emits, in order
broadcast_collection_signal(S, collection_id, name, data_path) ==
    LET als == SeqOf(list_aliases_for_collection(S, collection_id).val)
    IN  [i \in 1..Len(als) |-> Signal(alias_path(als[i]), name, data_path)]
        \o <<Signal(collection_path(collection_id), name, data_path),
             Signal(SERVICE_PATH, "CollectionChanged", collection_path(collection_id))>>

\* a task that runs no handler
Idle ==
    [op |-> "none", pc |-> "idle", id |-> None, secret |-> None, attrs |-> {},
     value |-> None, label |-> None, alias |-> None, found |-> FALSE, added |-> FALSE,
     signals |-> <<>>, result |-> None, sender |-> None]

\* no function was applied
NoCall == [fn |-> "none", arg |-> <<>>, val |-> <<>>]

\* no watcher task: the session id was never given to Session::new
NoWatcher == [pc |-> "none", name |-> None, rx |-> "empty", stream |-> FALSE]

EmptyStore ==
    [dirs |-> {}, files |-> [p \in ColIds \X SecIds |-> NoFile], collection_dbs |-> {},
     labels |-> [c \in ColIds |-> None], aliases |-> [a \in Aliases |-> None],
     aliases_reverse |-> {}, attributes |-> {},
     attributes_reverse |-> [p \in ColIds \X SecIds |-> {}],
     secret_labels |-> [p \in ColIds \X SecIds |-> None]]

\* Service::init on the password store S0 (its directories, files and tables);
\* new_id is the id nanoid gives if create_collection makes a collection
service_init(S0, new_id) ==
    LET \* SecretStore::new: every directory becomes a collection
        S1 == [S0 EXCEPT !.collection_dbs = S0.dirs]
        listed == [c \in ColIds |-> {a \in Aliases : <<c, a>> \in S1.aliases_reverse}]
        has_default == \E c \in ColIds : c = DEFAULT_COLLECTION_NAME /\ listed[c] # {}
        r == IF has_default THEN Ok(S1, None)
             ELSE create_collection(S1, "Default", DEFAULT_COLLECTION_NAME, new_id)
        als == IF has_default THEN listed
               ELSE [listed EXCEPT ![r.val] = {DEFAULT_COLLECTION_NAME}]
        S2 == [r.st EXCEPT !.dirs = @ \cup r.st.collection_dbs]
        CollectionAt(c) == {collection_path(c)} \cup {alias_path(a) : a \in als[c]}
        ItemAtPaths(c, s) ==
            {secret_path(c, s)} \cup {secret_alias_path(a, s) : a \in als[c]}
        Registered(p) ==
            IF \E c \in S2.collection_dbs : p \in CollectionAt(c)
            THEN CollectionObject(CHOOSE c \in S2.collection_dbs : p \in CollectionAt(c))
            ELSE IF \E c \in S2.collection_dbs : \E s \in SecretsOf(S2, c) :
                        p \in ItemAtPaths(c, s)
            THEN LET k == CHOOSE k \in S2.collection_dbs \X SecIds :
                              k[2] \in SecretsOf(S2, k[1]) /\ p \in ItemAtPaths(k[1], k[2])
                 IN  ItemObject(k[1], k[2])
            ELSE NoObject
    IN  [st |-> S2, objects |-> [p \in Paths |-> Registered(p)]]

\* the state Service::init leaves when the service starts on the store S0
ServiceInit(S0, new_id) ==
    LET r == service_init(S0, new_id)
    IN  /\ dirs = r.st.dirs
        /\ files = r.st.files
        /\ collection_dbs = r.st.collection_dbs
        /\ labels = r.st.labels
        /\ aliases = r.st.aliases
        /\ aliases_reverse = r.st.aliases_reverse
        /\ attributes = r.st.attributes
        /\ attributes_reverse = r.st.attributes_reverse
        /\ secret_labels = r.st.secret_labels
        /\ objects = r.objects
        /\ last_access = [p \in ColIds \X SecIds |-> None]
        /\ last = Reply("init", "ok", {}, {}, <<>>, None)
        /\ tasks = [t \in Tasks |-> Idle]
        /\ watchers = [s \in SessionIds |-> NoWatcher]
        /\ connected = Clients
        /\ pure = NoCall

\* Service::init on an empty password store; the ids are interchangeable, the one
\* nanoid gives to the default collection is the first of the pool
Init == ServiceInit(EmptyStore, CollectionIdPool[1])

\* Service::init on a password store in which a directory named default was
\* made by hand
InitForeign ==
    ServiceInit([EmptyStore EXCEPT !.dirs = {DEFAULT_COLLECTION_NAME}], CollectionIdPool[1])

\* Service::init on a password store that holds one collection directory and no
\* tables: a collection without label and alias
InitExisting ==
    ServiceInit([EmptyStore EXCEPT !.dirs = {CollectionIdPool[2]}], CollectionIdPool[1])

\* the service stops and starts again on the store it left: Service::init
Restart(new_id) ==
    LET r == service_init(Store, new_id)
    IN  /\ SetStore(r.st)
        /\ objects' = r.objects
        /\ last_access' = [p \in ColIds \X SecIds |-> None]
        /\ last' = Reply("init", "ok", {}, {}, <<>>, None)
        /\ UNCHANGED taskVars

\* Service::open_session
OpenSession(sender, algorithm, id) ==
    /\ IF algorithm \in {"plain", "dh-ietf1024-sha256-aes128-cbc-pkcs7"}
       THEN /\ objects' = At(objects, session_path(id), SessionObject(sender))
            /\ last' = Reply("OpenSession", "ok", {session_path(id)}, {}, <<>>, None)
       ELSE /\ objects' = objects
            /\ last' = Reply("OpenSession", "NotSupported", {}, {}, <<>>, None)
    /\ UNCHANGED <<storeVars, last_access>>
    /\ UNCHANGED taskVars

\* Session::close, called on a registered session
Close(sender, id) ==
    /\ HasInterface(objects, session_path(id), "Session")
    /\ IF objects[session_path(id)].client_name = sender
       THEN /\ objects' = Remove(objects, session_path(id), "Session")
            /\ last' = Reply("Close", "ok", {}, {}, <<>>, None)
       ELSE /\ objects' = objects
            /\ last' = Reply("Close", "AccessDenied", {}, {}, <<>>, None)
    /\ UNCHANGED <<storeVars, last_access>>
    /\ UNCHANGED taskVars

\* Service::create_collection
CreateCollection(label, name, new_id) ==
    LET slug == slugify(name)
        alias == IF slug = "" THEN None ELSE slug
        r == create_collection(Store, label, alias, new_id)
        id == r.val
        path == collection_path(id)
        added == ~HasInterface(objects, path, "Collection")
        o1 == At(objects, path, CollectionObject(id))
        o2 == IF alias # None
              THEN At(Remove(o1, alias_path(alias), "Collection"), alias_path(alias),
                      CollectionObject(id))
              ELSE o1
    IN  /\ SetStore(r.st)
        /\ objects' = IF added THEN o2 ELSE objects
        /\ last' = Reply("CreateCollection", "ok", {path}, {},
                         IF added THEN <<Signal(SERVICE_PATH, "CollectionCreated", path)>>
                         ELSE <<>>,
                         IF alias # None THEN aliases[alias] ELSE None)
        /\ UNCHANGED last_access
        /\ UNCHANGED taskVars

\* Service::read_alias
ReadAlias(name) ==
    LET r == get_alias(Store, slugify(name))
    IN  /\ last' = IF r.ok
                   THEN Reply("ReadAlias", "ok", {collection_path(r.val)}, {}, <<>>, None)
                   ELSE Reply("ReadAlias", "NoSuchObject", {}, {}, <<>>, None)
        /\ UNCHANGED <<storeVars, objects, last_access>>
        /\ UNCHANGED taskVars

\* Service::set_alias: what the call does to the store, the objects and the reply
set_alias_call(name, collection) ==
    LET alias == slugify(name)
        o1 == Remove(objects, alias_path(alias), "Collection")
        old_target == get_alias(Store, alias)
        listed == IF old_target.ok THEN list_secrets(Store, old_target.val) ELSE Ok(Store, {})
        o2 == RemoveAll(o1, {secret_alias_path(alias, s) : s \in listed.val}, "Item")
        S1 == listed.st
        old == IF old_target.ok THEN old_target.val ELSE None
        o3 == At(o2, alias_path(alias), o2[collection])
        collection_id == IF collection[1] = "collection" THEN collection[2] ELSE None
        listed2 == IF collection_id # None THEN list_secrets(S1, collection_id) ELSE Ok(S1, {})
        \* the items found at the alias paths are added again at the alias paths
        o4 == [p \in DOMAIN o3 |->
                 IF /\ p \in {secret_alias_path(alias, s) : s \in listed2.val}
                    /\ o3[p].iface = "Item"
                 THEN At(o3, p, o3[p])[p]
                 ELSE o3[p]]
    IN  IF alias = ""
        THEN \* alias_path(&alias).unwrap() panics on the invalid object path
             /\ last' = Reply("SetAlias", "panic", {}, {}, <<>>, None)
             /\ UNCHANGED <<storeVars, objects, last_access>>
        ELSE IF collection = EMPTY_PATH
        THEN /\ SetStore(set_alias(S1, alias, None).st)
             /\ objects' = o2
             /\ last' = Reply("SetAlias", "ok", {}, {}, <<>>, old)
             /\ UNCHANGED last_access
        ELSE IF ~HasInterface(o2, collection, "Collection")
        THEN /\ SetStore(S1)
             /\ objects' = o2
             /\ last' = Reply("SetAlias", "zbus.Error", {}, {}, <<>>, old)
             /\ UNCHANGED last_access
        ELSE /\ SetStore(set_alias(listed2.st, alias, collection_id).st)
             /\ objects' = o4
             /\ last' = Reply("SetAlias", "ok", {}, {}, <<>>, old)
             /\ UNCHANGED last_access

\* Service::set_alias
SetAlias(name, collection) == set_alias_call(name, collection) /\ UNCHANGED taskVars

\* Service::set_alias, noted with its arguments and whether it repeats the call
\* handled before it
SetAliasNoted(name, collection) ==
    /\ set_alias_call(name, collection)
    /\ pure' = [fn |-> "SetAlias", arg |-> <<name, collection>>,
                val |-> (last.op = "SetAlias" /\ pure.fn = "SetAlias"
                         /\ pure.arg = <<name, collection>>)]
    /\ UNCHANGED <<tasks, watchVars>>

\* Collection::delete, called on a path that hosts a Collection
CollectionDelete(path) ==
    LET id == objects[path].collection_id
        listed == list_secrets(Store, id)
        secrets == listed.val
        o1 == Remove(objects, collection_path(id), "Collection")
        deleted == <<Signal(SERVICE_PATH, "CollectionDeleted", collection_path(id))>>
        o2 == RemoveAll(o1, {secret_path(id, s) : s \in secrets}, "Item")
        als == list_aliases_for_collection(listed.st, id).val
        o3 == RemoveAll(RemoveAll(o2, {alias_path(a) : a \in als}, "Collection"),
                        {secret_alias_path(a, s) : a \in als, s \in secrets}, "Item")
        r == delete_collection(listed.st, id)
    IN  /\ HasInterface(objects, path, "Collection")
        /\ SetStore(r.st)
        /\ objects' = o3
        /\ last' = Reply("Collection.Delete", IF r.ok THEN "ok" ELSE "NoSuchObject", {}, {},
                         deleted, id)
        /\ UNCHANGED last_access
        /\ UNCHANGED taskVars

\* Collection::search_items, called on a path that hosts a Collection
CollectionSearchItems(path, attrs, first) ==
    LET id == objects[path].collection_id
        r == search_collection(Store, id, attrs, first)
    IN  /\ HasInterface(objects, path, "Collection")
        /\ last' = IF r.ok
                   THEN Reply("Collection.SearchItems", "ok",
                              {secret_path(id, s) : s \in r.val}, {}, <<>>, id)
                   ELSE Reply("Collection.SearchItems", "NoSuchObject", {}, {}, <<>>, id)
        /\ UNCHANGED <<storeVars, objects, last_access>>
        /\ UNCHANGED taskVars

\* a variant of the session lookup that finds a session at every path
session_interface_any(objs, session) == TRUE

\* object_server.interface::<_, Session>(&session) of the handlers that take a
\* session: whether a Session is registered at the path
session_interface(objs, session) == HasInterface(objs, session_path(session), "Session")

\* a variant of Session::encrypt and Session::decrypt that let every sender use the session
Authorized_anyone(objs, session, sender) == TRUE

\* Session::decrypt and Session::encrypt: whether the sender may use the session
Authorized(objs, session, sender) == objs[session_path(session)].client_name = sender

\* Collection::create_item, called on a path that hosts a Collection; the Secret
\* names the session and carries the value; secret_id is the id nanoid would give,
\* first the pair the attribute map yields first
CreateItem(path, sender, session, value, label, attrs, replace, secret_id, first) ==
    LET id == objects[path].collection_id
        matching == search_collection(Store, id, attrs, first)
        found == replace /\ matching.ok /\ matching.val # {}
    IN  /\ HasInterface(objects, path, "Collection")
        /\ IF ~session_interface(objects, session)
           THEN /\ last' = Reply("CreateItem", "NoSession", {}, {}, <<>>, id)
                /\ UNCHANGED <<storeVars, objects>>
           ELSE IF ~Authorized(objects, session, sender)
           THEN /\ last' = Reply("CreateItem", "AccessDenied", {}, {}, <<>>, id)
                /\ UNCHANGED <<storeVars, objects>>
           ELSE IF replace /\ ~matching.ok
           THEN /\ last' = Reply("CreateItem", "NoSuchObject", {}, {}, <<>>, id)
                /\ UNCHANGED <<storeVars, objects>>
           ELSE IF found
           THEN \E existing \in matching.val :
                    LET w == set_secret(Store, id, existing, value)
                        l == IF label # None
                             THEN set_secret_label(w.st, id, existing, label)
                             ELSE Ok(w.st, None)
                        item == secret_path(id, existing)
                    IN  /\ SetStore(l.st)
                        /\ objects' = objects
                        /\ last' = IF l.ok
                                   THEN Reply("CreateItem", "ok", {item}, {},
                                              broadcast_collection_signal(l.st, id,
                                                                          "ItemChanged", item),
                                              id)
                                   ELSE Reply("CreateItem", "NoSuchObject", {}, {}, <<>>, id)
           ELSE LET c == create_secret(Store, id, label, value, attrs, secret_id)
                    item == secret_path(id, secret_id)
                    als == list_aliases_for_collection(c.st, id).val
                    o1 == AtAll(objects, {secret_alias_path(a, secret_id) : a \in als},
                                ItemObject(id, secret_id))
                    o2 == At(o1, item, ItemObject(id, secret_id))
                IN  /\ SetStore(c.st)
                    /\ objects' = IF c.ok THEN o2 ELSE objects
                    /\ last' = IF c.ok
                               THEN Reply("CreateItem", "ok", {item}, {},
                                          broadcast_collection_signal(c.st, id, "ItemCreated",
                                                                      item),
                                          id)
                               ELSE Reply("CreateItem", "NoSuchObject", {}, {}, <<>>, id)
        /\ UNCHANGED last_access
        /\ UNCHANGED taskVars

\* Item::delete, called on a path that hosts an Item
ItemDelete(path) ==
    LET collection_id == objects[path].collection_id
        id == objects[path].id
        r == delete_secret(Store, collection_id, id)
        item == secret_path(collection_id, id)
        o1 == Remove(objects, item, "Item")
        als == list_aliases_for_collection(r.st, collection_id).val
        o2 == RemoveAll(o1, {secret_alias_path(a, id) : a \in als}, "Item")
    IN  /\ HasInterface(objects, path, "Item")
        /\ SetStore(r.st)
        /\ objects' = IF r.ok THEN o2 ELSE objects
        /\ last' = IF r.ok
                   THEN Reply("Item.Delete", "ok", {}, {},
                              broadcast_collection_signal(r.st, collection_id, "ItemDeleted",
                                                          item),
                              collection_id)
                   ELSE Reply("Item.Delete", "NoSuchObject", {}, {}, <<>>, collection_id)
        /\ UNCHANGED last_access
        /\ UNCHANGED taskVars

\* Item::read_with_session: the store state, the last-access record and the reply
read_with_session(S, access, objs, collection_id, id, session, sender) ==
    LET r == read_secret(S, collection_id, id)
        accessed == [access EXCEPT ![<<collection_id, id>>] = sender]
    IN  IF ~r.ok THEN [access |-> access, result |-> "NoSuchObject", secrets |-> {}]
        ELSE IF ~Authorized(objs, session, sender)
        THEN [access |-> accessed, result |-> "AccessDenied", secrets |-> {}]
        ELSE [access |-> accessed, result |-> "ok", secrets |-> {r.val}]

\* Item::get_secret, called on a path that hosts an Item
GetSecret(path, sender, session) ==
    LET collection_id == objects[path].collection_id
        id == objects[path].id
        r == read_with_session(Store, last_access, objects, collection_id, id, session, sender)
    IN  /\ HasInterface(objects, path, "Item")
        /\ IF ~session_interface(objects, session)
           THEN /\ last' = Reply("Item.GetSecret", "NoSession", {}, {}, <<>>, collection_id)
                /\ UNCHANGED last_access
           ELSE /\ last' = Reply("Item.GetSecret", r.result, {}, r.secrets, <<>>, collection_id)
                /\ last_access' = r.access
        /\ UNCHANGED <<storeVars, objects>>
        /\ UNCHANGED taskVars

\* the loop of Service::get_secrets over the item paths from the i-th on
RECURSIVE get_secrets_loop(_, _, _, _, _, _)
get_secrets_loop(items, i, access, results, session, sender) ==
    IF i > Len(items) THEN [access |-> access, result |-> "ok", secrets |-> results]
    ELSE IF ~HasInterface(objects, items[i], "Item")
    THEN [access |-> access, result |-> "NoSuchObject", secrets |-> {}]
    ELSE LET item == objects[items[i]]
             r == read_with_session(Store, access, objects, item.collection_id, item.id,
                                    session, sender)
         IN  IF r.result # "ok" THEN r
             ELSE get_secrets_loop(items, i + 1, r.access, results \cup r.secrets, session,
                                   sender)

\* Service::get_secrets; items is the list of item paths the client passes
GetSecrets(items, sender, session) ==
    LET r == get_secrets_loop(items, 1, last_access, {}, session, sender)
    IN  /\ IF ~session_interface(objects, session)
           THEN /\ last' = Reply("GetSecrets", "NoSession", {}, {}, <<>>, None)
                /\ UNCHANGED last_access
           ELSE /\ last' = Reply("GetSecrets", r.result,
                                 IF r.result = "ok" THEN {items[i] : i \in DOMAIN items} ELSE {},
                                 r.secrets, <<>>, None)
                /\ last_access' = r.access
        /\ UNCHANGED <<storeVars, objects>>
        /\ UNCHANGED taskVars

\* Item::set_secret, called on a path that hosts an Item
SetSecret(path, sender, session, value) ==
    LET collection_id == objects[path].collection_id
        id == objects[path].id
        w == set_secret(Store, collection_id, id, value)
    IN  /\ HasInterface(objects, path, "Item")
        /\ IF ~session_interface(objects, session)
           THEN /\ last' = Reply("Item.SetSecret", "NoSession", {}, {}, <<>>, collection_id)
                /\ UNCHANGED storeVars
           ELSE IF ~Authorized(objects, session, sender)
           THEN /\ last' = Reply("Item.SetSecret", "AccessDenied", {}, {}, <<>>, collection_id)
                /\ UNCHANGED storeVars
           ELSE /\ SetStore(w.st)
                /\ last' = Reply("Item.SetSecret", "ok", {}, {},
                                 broadcast_collection_signal(w.st, collection_id, "ItemChanged",
                                                             secret_path(collection_id, id)),
                                 collection_id)
        /\ UNCHANGED <<objects, last_access>>
        /\ UNCHANGED taskVars

\* Item::set_attributes, called on a path that hosts an Item
SetAttributes(path, attrs) ==
    LET collection_id == objects[path].collection_id
        id == objects[path].id
        r == set_secret_attrs(Store, collection_id, id, attrs)
    IN  /\ HasInterface(objects, path, "Item")
        /\ SetStore(r.st)
        /\ last' = Reply("Item.SetAttributes", IF r.ok THEN "ok" ELSE "NoSuchObject", {}, {}, <<>>,
                         collection_id)
        /\ UNCHANGED <<objects, last_access>>
        /\ UNCHANGED taskVars

\* Item::set_label, the setter of the property Label, called on a path that hosts
\* an Item
SetLabel(path, label) ==
    LET collection_id == objects[path].collection_id
        id == objects[path].id
        r == set_secret_label(Store, collection_id, id, label)
    IN  /\ HasInterface(objects, path, "Item")
        /\ SetStore(r.st)
        /\ last' = Reply("Item.SetLabel", IF r.ok THEN "ok" ELSE "NoSuchObject", {}, {}, <<>>,
                         collection_id)
        /\ UNCHANGED <<objects, last_access>>
        /\ UNCHANGED taskVars

-----------------------------------------------------------------------------
(* The inputs of the calls *)

-----------------------------------------------------------------------------
(* Handlers as tasks.  The bus library runs every method call in a task of *)
(* its own; a task runs up to its next await, where the other tasks may    *)
(* run.  tasks[t] holds the position (pc) and the locals of the call.      *)

\* the task t runs no call
Free(t) == tasks[t].pc \in {"idle", "returned"}

\* the call of a task returns: its reply, and the frame it leaves
Return(t, f, result, ret) ==
    /\ last' = Reply(f.op, result, ret, {}, f.signals, f.id)
    /\ tasks' = [tasks EXCEPT ![t] = [f EXCEPT !.pc = "returned", !.result = result]]
    /\ UNCHANGED <<watchVars, pure>>

\* the call of a task goes on at pc
Goto(t, f, pc) ==
    /\ tasks' = [tasks EXCEPT ![t] = [f EXCEPT !.pc = pc]]
    /\ last' = last
    /\ UNCHANGED <<watchVars, pure>>

\* Collection::create_item up to the decryption of the secret
CreateItemCall(t, path, sender, session, value, label, attrs, replace, secret_id) ==
    LET f == [Idle EXCEPT !.op = "CreateItem", !.id = objects[path].collection_id,
                          !.secret = secret_id, !.attrs = attrs, !.value = value,
                          !.label = label]
    IN  /\ Free(t)
        /\ HasInterface(objects, path, "Collection")
        /\ IF ~session_interface(objects, session)
           THEN Return(t, f, "NoSession", {})
           ELSE IF ~Authorized(objects, session, sender)
           THEN Return(t, f, "AccessDenied", {})
           ELSE Goto(t, f, IF replace THEN "search" ELSE "write")
        /\ UNCHANGED <<storeVars, objects, last_access>>

\* Collection::create_item, replace: the search for a matching secret
CreateItemSearch(t, first) ==
    LET f == tasks[t]
        matching == search_collection(Store, f.id, f.attrs, first)
    IN  /\ f.op = "CreateItem" /\ f.pc = "search"
        /\ IF ~matching.ok
           THEN Return(t, f, "NoSuchObject", {})
           ELSE IF matching.val # {}
           THEN \E existing \in matching.val :
                    Goto(t, [f EXCEPT !.secret = existing, !.found = TRUE], "set_secret")
           ELSE Goto(t, f, "write")
        /\ UNCHANGED <<storeVars, objects, last_access>>

\* Collection::create_item, replace: set_secret on the matching secret
CreateItemSetSecret(t) ==
    LET f == tasks[t]
    IN  /\ f.op = "CreateItem" /\ f.pc = "set_secret"
        /\ SetStore(set_secret(Store, f.id, f.secret, f.value).st)
        /\ Goto(t, f, IF f.label # None THEN "set_label" ELSE "signal")
        /\ UNCHANGED <<objects, last_access>>

\* Collection::create_item, replace: set_secret_label on the matching secret
CreateItemSetLabel(t) ==
    LET f == tasks[t]
        r == set_secret_label(Store, f.id, f.secret, f.label)
    IN  /\ f.op = "CreateItem" /\ f.pc = "set_label"
        /\ SetStore(r.st)
        /\ IF r.ok THEN Goto(t, f, "signal") ELSE Return(t, f, "NoSuchObject", {})
        /\ UNCHANGED <<objects, last_access>>

\* SecretStore::create_secret: write_password
CreateItemWrite(t) ==
    LET f == tasks[t]
    IN  /\ f.op = "CreateItem" /\ f.pc = "write"
        /\ SetStore(write_password(Store, f.id, f.secret, f.value))
        /\ Goto(t, f, "commit")
        /\ UNCHANGED <<objects, last_access>>

\* SecretStore::create_secret: the write transaction
CreateItemCommit(t) ==
    LET f == tasks[t]
        r == create_secret_tx(Store, f.id, f.label, f.attrs, f.secret)
    IN  /\ f.op = "CreateItem" /\ f.pc = "commit"
        /\ SetStore(r.st)
        /\ IF r.ok THEN Goto(t, f, "register") ELSE Return(t, f, "NoSuchObject", {})
        /\ UNCHANGED <<objects, last_access>>

\* Collection::create_item: the item is added at the alias paths and the canonical path
CreateItemRegister(t) ==
    LET f == tasks[t]
        als == list_aliases_for_collection(Store, f.id).val
        o1 == AtAll(objects, {secret_alias_path(a, f.secret) : a \in als},
                    ItemObject(f.id, f.secret))
    IN  /\ f.op = "CreateItem" /\ f.pc = "register"
        /\ objects' = At(o1, secret_path(f.id, f.secret), ItemObject(f.id, f.secret))
        /\ Goto(t, f, "signal")
        /\ UNCHANGED <<storeVars, last_access>>

\* Collection::create_item: broadcast_self_signal, ItemChanged after a replacement
\* and ItemCreated after a creation
CreateItemSignal(t) ==
    LET f == tasks[t]
        item == secret_path(f.id, f.secret)
        name == IF f.found THEN "ItemChanged" ELSE "ItemCreated"
    IN  /\ f.op = "CreateItem" /\ f.pc = "signal"
        /\ Goto(t, [f EXCEPT !.signals = broadcast_collection_signal(Store, f.id, name, item)],
                "return")
        /\ UNCHANGED <<storeVars, objects, last_access>>

\* Collection::create_item: the path of the item is returned
CreateItemReturn(t) ==
    LET f == tasks[t]
    IN  /\ f.op = "CreateItem" /\ f.pc = "return"
        /\ Return(t, f, "ok", {secret_path(f.id, f.secret)})
        /\ UNCHANGED <<storeVars, objects, last_access>>

\* Service::create_collection up to the call of the store
CreateCollectionCall(t, label, name, new_id) ==
    LET slug == slugify(name)
        f == [Idle EXCEPT !.op = "CreateCollection", !.label = label, !.id = new_id,
                          !.alias = IF slug = "" THEN None ELSE slug]
    IN  /\ Free(t)
        /\ Goto(t, f, "tx")
        /\ UNCHANGED <<storeVars, objects, last_access>>

\* SecretStore::create_collection: the write transaction on collections.redb
CreateCollectionTx(t) ==
    LET f == tasks[t]
        r == create_collection_tx(Store, f.label, f.alias, f.id)
    IN  /\ f.op = "CreateCollection" /\ f.pc = "tx"
        /\ SetStore(r.st)
        /\ Goto(t, [f EXCEPT !.id = r.val], "db")
        /\ UNCHANGED <<objects, last_access>>

\* SecretStore::create_collection: under the write lock of collection_dbs
CreateCollectionDb(t) ==
    LET f == tasks[t]
    IN  /\ f.op = "CreateCollection" /\ f.pc = "db"
        /\ SetStore(create_collection_db(Store, f.id))
        /\ Goto(t, f, "lookup")
        /\ UNCHANGED <<objects, last_access>>

\* Service::create_collection: object_server.interface at the collection path
CreateCollectionLookup(t) ==
    LET f == tasks[t]
        found == HasInterface(objects, collection_path(f.id), "Collection")
    IN  /\ f.op = "CreateCollection" /\ f.pc = "lookup"
        /\ IF found
           THEN Return(t, [f EXCEPT !.found = TRUE], "ok", {collection_path(f.id)})
           ELSE Goto(t, f, "at")
        /\ UNCHANGED <<storeVars, objects, last_access>>

\* Service::create_collection: object_server.at at the collection path; added is
\* what at returns, which the handler drops
CreateCollectionAt(t) ==
    LET f == tasks[t]
        path == collection_path(f.id)
    IN  /\ f.op = "CreateCollection" /\ f.pc = "at"
        /\ objects' = At(objects, path, CollectionObject(f.id))
        /\ Goto(t, [f EXCEPT !.added = ~HasInterface(objects, path, "Collection")],
                IF f.alias # None THEN "alias_remove" ELSE "signal")
        /\ UNCHANGED <<storeVars, last_access>>

\* Service::create_collection: object_server.remove at the alias path
CreateCollectionAliasRemove(t) ==
    LET f == tasks[t]
    IN  /\ f.op = "CreateCollection" /\ f.pc = "alias_remove"
        /\ objects' = Remove(objects, alias_path(f.alias), "Collection")
        /\ Goto(t, f, "alias_at")
        /\ UNCHANGED <<storeVars, last_access>>

\* Service::create_collection: object_server.at at the alias path
CreateCollectionAliasAt(t) ==
    LET f == tasks[t]
    IN  /\ f.op = "CreateCollection" /\ f.pc = "alias_at"
        /\ objects' = At(objects, alias_path(f.alias), CollectionObject(f.id))
        /\ Goto(t, f, "signal")
        /\ UNCHANGED <<storeVars, last_access>>

\* Service::create_collection: the CollectionCreated signal
CreateCollectionSignal(t) ==
    LET f == tasks[t]
    IN  /\ f.op = "CreateCollection" /\ f.pc = "signal"
        /\ Goto(t, [f EXCEPT !.signals = <<Signal(SERVICE_PATH, "CollectionCreated",
                                                   collection_path(f.id))>>],
                "return")
        /\ UNCHANGED <<storeVars, objects, last_access>>

\* Service::create_collection: the path of the collection is returned
CreateCollectionReturn(t) ==
    LET f == tasks[t]
    IN  /\ f.op = "CreateCollection" /\ f.pc = "return"
        /\ Return(t, f, "ok", {collection_path(f.id)})
        /\ UNCHANGED <<storeVars, objects, last_access>>

\* Item::delete, called on a path that hosts an Item: delete_secret
ItemDeleteStore(t, path) ==
    LET f == [Idle EXCEPT !.op = "Item.Delete", !.id = objects[path].collection_id,
                          !.secret = objects[path].id]
        r == delete_secret(Store, f.id, f.secret)
    IN  /\ Free(t)
        /\ HasInterface(objects, path, "Item")
        /\ SetStore(r.st)
        /\ IF r.ok THEN Goto(t, f, "signal") ELSE Return(t, f, "NoSuchObject", {})
        /\ UNCHANGED <<objects, last_access>>

\* Item::delete: broadcast_collection_signal ItemDeleted
ItemDeleteSignal(t) ==
    LET f == tasks[t]
    IN  /\ f.op = "Item.Delete" /\ f.pc = "signal"
        /\ Goto(t, [f EXCEPT !.signals =
                                 broadcast_collection_signal(Store, f.id, "ItemDeleted",
                                                             secret_path(f.id, f.secret))],
                "remove")
        /\ UNCHANGED <<storeVars, objects, last_access>>

\* Item::delete: the objects are removed at the canonical path and the alias paths
ItemDeleteRemove(t) ==
    LET f == tasks[t]
        o1 == Remove(objects, secret_path(f.id, f.secret), "Item")
        als == list_aliases_for_collection(Store, f.id).val
    IN  /\ f.op = "Item.Delete" /\ f.pc = "remove"
        /\ objects' = RemoveAll(o1, {secret_alias_path(a, f.secret) : a \in als}, "Item")
        /\ Return(t, f, "ok", {})
        /\ UNCHANGED <<storeVars, last_access>>

\* Service::open_session up to Session::new, which makes the oneshot channel and
\* spawns the watcher task; id is the id nanoid gives, one no session had before
OpenSessionNew(t, sender, algorithm, id) ==
    LET f == [Idle EXCEPT !.op = "OpenSession", !.id = id, !.sender = sender]
    IN  /\ Free(t)
        /\ sender \in connected
        /\ watchers[id].pc = "none"
        /\ IF algorithm \in {"plain", "dh-ietf1024-sha256-aes128-cbc-pkcs7"}
           THEN /\ watchers' = [watchers EXCEPT ![id] =
                                    [pc |-> "spawned", name |-> sender, rx |-> "empty",
                                     stream |-> FALSE]]
                /\ tasks' = [tasks EXCEPT ![t] = [f EXCEPT !.pc = "at"]]
                /\ last' = last
                /\ UNCHANGED <<connected, pure>>
           ELSE Return(t, f, "NotSupported", {})
        /\ UNCHANGED <<storeVars, objects, last_access>>

\* Service::open_session: object_server.at(&path, session), and the reply
OpenSessionAt(t) ==
    LET f == tasks[t]
    IN  /\ f.op = "OpenSession" /\ f.pc = "at"
        /\ objects' = At(objects, session_path(f.id), SessionObject(f.sender))
        /\ Return(t, f, "ok", {session_path(f.id)})
        /\ UNCHANGED <<storeVars, last_access>>

\* the bus library finds the Session a Close call names; the call may have been
\* sent by a client that has lost its name since
CloseDispatch(t, sender, id) ==
    LET f == [Idle EXCEPT !.op = "Close", !.id = id, !.sender = sender]
    IN  /\ Free(t)
        /\ HasInterface(objects, session_path(id), "Session")
        /\ Goto(t, f, "remove")
        /\ UNCHANGED <<storeVars, objects, last_access>>

\* Session::close, which runs under the write lock of the interface: the check
\* of the sender and object_server.remove
CloseRemove(t) ==
    LET f == tasks[t]
    IN  /\ f.op = "Close" /\ f.pc = "remove"
        /\ \A u \in Tasks : ~(tasks[u].op = "Close" /\ tasks[u].id = f.id /\ tasks[u].pc = "send")
        /\ IF watchers[f.id].name = f.sender
           THEN /\ objects' = Remove(objects, session_path(f.id), "Session")
                /\ Goto(t, f, "send")
           ELSE /\ objects' = objects
                /\ Return(t, f, "AccessDenied", {})
        /\ UNCHANGED <<storeVars, last_access>>

\* a variant of the oneshot send whose value never reaches the receiver
oneshot_send_lost(w) == w

\* self.closed.take() and tx.send(()): the first send reaches a receiver that is
\* still there; the Sender is gone after it
oneshot_send(w) == IF w.pc # "done" /\ w.rx = "empty" THEN [w EXCEPT !.rx = "sent"] ELSE w

\* Session::close: the send on the closed channel, and the reply
CloseSend(t) ==
    LET f == tasks[t]
    IN  /\ f.op = "Close" /\ f.pc = "send"
        /\ watchers' = [watchers EXCEPT ![f.id] = oneshot_send(@)]
        /\ last' = Reply(f.op, "ok", {}, {}, f.signals, f.id)
        /\ tasks' = [tasks EXCEPT ![t] = [f EXCEPT !.pc = "returned", !.result = "ok"]]
        /\ UNCHANGED <<storeVars, objects, last_access, connected, pure>>

\* the client leaves the bus: NameOwnerChanged(name, name, "") reaches the
\* streams that are subscribed by now
Disconnect(c) ==
    /\ c \in connected
    /\ connected' = connected \ {c}
    /\ watchers' = [s \in SessionIds |->
                        IF watchers[s].pc = "select" /\ watchers[s].name = c
                        THEN [watchers[s] EXCEPT !.stream = TRUE] ELSE watchers[s]]
    /\ UNCHANGED <<storeVars, objects, last_access, last, tasks, pure>>

\* the watcher task: DBusProxy::new
WatcherProxy(s) ==
    /\ watchers[s].pc = "spawned"
    /\ watchers' = [watchers EXCEPT ![s].pc = "proxy"]
    /\ UNCHANGED <<storeVars, objects, last_access, last, tasks, connected, pure>>

\* the watcher task: receive_name_owner_changed_with_args; the match rule is in
\* place from here on
WatcherSubscribe(s) ==
    /\ watchers[s].pc = "proxy"
    /\ watchers' = [watchers EXCEPT ![s].pc = "select"]
    /\ UNCHANGED <<storeVars, objects, last_access, last, tasks, connected, pure>>

\* the watcher task: select! takes the rx branch
WatcherClosed(s) ==
    /\ watchers[s].pc = "select" /\ watchers[s].rx = "sent"
    /\ watchers' = [watchers EXCEPT ![s].pc = "done"]
    /\ UNCHANGED <<storeVars, objects, last_access, last, tasks, connected, pure>>

\* the watcher task: select! takes the name_gone_stream branch and removes the
\* session
WatcherNameGone(s) ==
    /\ watchers[s].pc = "select" /\ watchers[s].stream
    /\ objects' = Remove(objects, session_path(s), "Session")
    /\ watchers' = [watchers EXCEPT ![s].pc = "done"]
    /\ UNCHANGED <<storeVars, last_access, last, tasks, connected, pure>>

\* a step of the watcher task of the session
Watcher(s) ==
    WatcherProxy(s) \/ WatcherSubscribe(s) \/ WatcherClosed(s) \/ WatcherNameGone(s)

\* a step of a call that is being handled
Handler(t) == OpenSessionAt(t) \/ CloseRemove(t) \/ CloseSend(t)

(* The store's operations on the pool of blocking threads.  A closure given   *)
(* to spawn_blocking waits for a thread of the pool and keeps it until it     *)
(* returns; tokio::fs runs its calls on the same pool.                        *)

\* the closures that hold a thread of the pool: those waiting in blocking_read
busy == Cardinality({t \in Tasks : tasks[t].pc = "blocking_read"})
FreeWorker == busy < PoolSize
\* create_collection holds the write lock of collection_dbs
WriteLocked ==
    \E t \in Tasks : tasks[t].op = "create_collection" /\ tasks[t].pc \in {"make_dir", "open_db"}

\* SecretStore::search_collection: spawn_blocking
SearchCollectionSpawn(t, collection_id, attrs) ==
    LET f == [Idle EXCEPT !.op = "search_collection", !.id = collection_id, !.attrs = attrs]
    IN  /\ Free(t)
        /\ Goto(t, f, "queued")
        /\ UNCHANGED <<storeVars, objects, last_access>>

\* the closure of search_collection gets a thread and calls blocking_read
SearchCollectionWorker(t) ==
    LET f == tasks[t]
    IN  /\ f.op = "search_collection" /\ f.pc = "queued"
        /\ FreeWorker
        /\ Goto(t, f, "blocking_read")
        /\ UNCHANGED <<storeVars, objects, last_access>>

\* the closure of search_collection gets the read lock, searches and returns;
\* first is the pair the iteration of attrs gives first
SearchCollectionRead(t, first) ==
    LET f == tasks[t]
        r == search_collection(Store, f.id, f.attrs, first)
    IN  /\ f.op = "search_collection" /\ f.pc = "blocking_read"
        /\ ~WriteLocked
        /\ IF r.ok THEN Return(t, f, "ok", r.val) ELSE Return(t, f, "NotFound", {})
        /\ UNCHANGED <<storeVars, objects, last_access>>

\* SecretStore::create_collection: spawn_blocking of the transaction
StoreCreateSpawn(t, label, alias, new_id) ==
    LET f == [Idle EXCEPT !.op = "create_collection", !.label = label, !.alias = alias,
                          !.id = new_id]
    IN  /\ Free(t)
        /\ Goto(t, f, "tx")
        /\ UNCHANGED <<storeVars, objects, last_access>>

\* the transaction of create_collection runs on a thread of the pool
StoreCreateTx(t) ==
    LET f == tasks[t]
        r == create_collection_tx(Store, f.label, f.alias, f.id)
    IN  /\ f.op = "create_collection" /\ f.pc = "tx"
        /\ FreeWorker
        /\ SetStore(r.st)
        /\ Goto(t, [f EXCEPT !.id = r.val], "write")
        /\ UNCHANGED <<objects, last_access>>

\* create_collection: collection_dbs.write().await and contains_key
StoreCreateWrite(t) ==
    LET f == tasks[t]
    IN  /\ f.op = "create_collection" /\ f.pc = "write"
        /\ ~WriteLocked
        /\ IF f.id \in collection_dbs THEN Return(t, f, "ok", {f.id}) ELSE Goto(t, f, "make_dir")
        /\ UNCHANGED <<storeVars, objects, last_access>>

\* create_collection, holding the write lock: pass.make_dir, on a thread of the pool
StoreCreateMakeDir(t) ==
    LET f == tasks[t]
    IN  /\ f.op = "create_collection" /\ f.pc = "make_dir"
        /\ FreeWorker
        /\ SetStore(ensure_dirs(Store, f.id))
        /\ Goto(t, f, "open_db")
        /\ UNCHANGED <<objects, last_access>>

\* create_collection, holding the write lock: open_db, on a thread of the pool,
\* the insert into collection_dbs and the release of the lock
StoreCreateOpenDb(t) ==
    LET f == tasks[t]
    IN  /\ f.op = "create_collection" /\ f.pc = "open_db"
        /\ FreeWorker
        /\ SetStore(create_collection_db(Store, f.id))
        /\ Return(t, f, "ok", {f.id})
        /\ UNCHANGED <<objects, last_access>>


Algorithms == {"plain", "rot13"}
\* object paths a client may name as the collection of SetAlias
TargetPaths == CollectionPaths \cup {EMPTY_PATH}
\* the pair a HashMap of attributes may yield first
FirstOf(attrs) == IF attrs = {} THEN {<<"", "">>} ELSE attrs
\* the item lists a client may pass to GetSecrets
ItemLists == UNION {[1..n -> ItemPaths] : n \in 0..MaxItems}
\* the client, the payload, the secret id and the label of the specifications
\* that need one only
Client1 == ClientPool[1]
Payload1 == "hunter2"
Secret1 == SecretIdPool[1]
Label1 == "Default"
NoPair == <<"", "">>

(* The object graph: collections, aliases, items and their mirrors.  One client, *)
(* items without attributes, one secret id per collection.                       *)
Next ==
    \/ \E algorithm \in Algorithms, id \in SessionIds : OpenSession(Client1, algorithm, id)
    \/ \E name \in GivenNames, new_id \in NewIds : CreateCollection(Label1, name, new_id)
    \/ \E name \in GivenNames : ReadAlias(name)
    \/ \E name \in GivenNames, collection \in TargetPaths : SetAlias(name, collection)
    \/ \E path \in CollectionPaths : CollectionDelete(path)
    \/ \E path \in CollectionPaths, session \in SessionIds :
           CreateItem(path, Client1, session, Payload1, None, {}, FALSE, Secret1, NoPair)
    \/ \E path \in ItemPaths : ItemDelete(path)
    \/ \E path \in ItemPaths, session \in SessionIds :
           SetSecret(path, Client1, session, Payload1)

Spec == Init /\ [][Next]_vars

(* The object graph under successful calls only *)
NextOk == Next /\ last'.result = "ok"

SpecOk == Init /\ [][NextOk]_vars

(* The attribute index of the default collection: items with attributes, searches *)
NextIndex ==
    \/ \E id \in SessionIds : OpenSession(Client1, "plain", id)
    \/ \E path \in CollectionPaths, session \in SessionIds, attrs \in AttrMaps,
          replace \in BOOLEAN, secret_id \in SecIds :
           \E first \in FirstOf(attrs) :
               CreateItem(path, Client1, session, Payload1, None, attrs, replace, secret_id,
                          first)
    \/ \E path \in ItemPaths, attrs \in AttrMaps : SetAttributes(path, attrs)
    \/ \E path \in ItemPaths, label \in GivenLabels : SetLabel(path, label)
    \/ \E path \in ItemPaths : ItemDelete(path)
    \/ \E path \in CollectionPaths, attrs \in AttrMaps :
           \E first \in FirstOf(attrs) : CollectionSearchItems(path, attrs, first)

SpecIndex == Init /\ [][NextIndex]_vars

(* The sessions: two clients, their sessions and the calls that name a session *)
NextSession ==
    \/ \E sender \in Clients, algorithm \in Algorithms, id \in SessionIds :
           OpenSession(sender, algorithm, id)
    \/ \E sender \in Clients, id \in SessionIds : Close(sender, id)
    \/ \E path \in CollectionPaths, sender \in Clients, session \in SessionIds,
          value \in Payloads :
           CreateItem(path, sender, session, value, None, {}, FALSE, Secret1, NoPair)
    \/ \E path \in ItemPaths, sender \in Clients, session \in SessionIds :
           GetSecret(path, sender, session)
    \/ \E items \in ItemLists, sender \in Clients, session \in SessionIds :
           GetSecrets(items, sender, session)
    \/ \E path \in ItemPaths, sender \in Clients, session \in SessionIds, value \in Payloads :
           SetSecret(path, sender, session, value)

SpecSession == Init /\ [][NextSession]_vars

Labels == {None} \cup GivenLabels

(* Collections with and without label, started on a store that holds a *)
(* collection without label                                            *)
NextLabels ==
    \/ \E label \in Labels, name \in GivenNames, new_id \in NewIds :
           CreateCollection(label, name, new_id)
    \/ \E name \in GivenNames, collection \in TargetPaths : SetAlias(name, collection)
    \/ \E path \in CollectionPaths : CollectionDelete(path)

SpecLabels == InitExisting /\ [][NextLabels]_vars

(* CreateItem on the default collection, with and without replace, payloads and *)
(* labels                                                                       *)
DefaultAlias == alias_path(DEFAULT_COLLECTION_NAME)

NextReplace ==
    \/ \E id \in SessionIds : OpenSession(Client1, "plain", id)
    \/ \E session \in SessionIds, attrs \in AttrMaps, replace \in BOOLEAN,
          secret_id \in SecIds, value \in Payloads, label \in Labels :
           \E first \in FirstOf(attrs) :
               CreateItem(DefaultAlias, Client1, session, value, label, attrs, replace,
                          secret_id, first)

SpecReplace == Init /\ [][NextReplace]_vars

(* Concurrent CreateCollection calls *)
NextCollections ==
    \/ \E t \in Tasks, name \in GivenNames, new_id \in NewIds :
           CreateCollectionCall(t, Label1, name, new_id)
    \/ \E t \in Tasks : CreateCollectionTx(t)
    \/ \E t \in Tasks : CreateCollectionDb(t)
    \/ \E t \in Tasks : CreateCollectionLookup(t)
    \/ \E t \in Tasks : CreateCollectionAt(t)
    \/ \E t \in Tasks : CreateCollectionAliasRemove(t)
    \/ \E t \in Tasks : CreateCollectionAliasAt(t)
    \/ \E t \in Tasks : CreateCollectionSignal(t)
    \/ \E t \in Tasks : CreateCollectionReturn(t)

SpecCollections == Init /\ [][NextCollections]_vars

(* CreateItem, with and without replace, and Item.Delete on one secret of the *)
(* default collection, step by step, one call at a time                       *)
Pair1 == <<"a", "1">>
AttrMap1 == {Pair1}

NextSignals ==
    \/ \E id \in SessionIds : OpenSession(Client1, "plain", id)
    \/ \E t \in {1}, session \in SessionIds, label \in Labels, replace \in BOOLEAN :
           CreateItemCall(t, DefaultAlias, Client1, session, Payload1, label, AttrMap1,
                          replace, Secret1)
    \/ \E t \in {1} : CreateItemSearch(t, Pair1)
    \/ \E t \in {1} : CreateItemSetSecret(t)
    \/ \E t \in {1} : CreateItemSetLabel(t)
    \/ \E t \in {1} : CreateItemWrite(t)
    \/ \E t \in {1} : CreateItemCommit(t)
    \/ \E t \in {1} : CreateItemRegister(t)
    \/ \E t \in {1} : CreateItemSignal(t)
    \/ \E t \in {1} : CreateItemReturn(t)
    \/ \E t \in {1}, path \in ItemPaths : ItemDeleteStore(t, path)
    \/ \E t \in {1} : ItemDeleteSignal(t)
    \/ \E t \in {1} : ItemDeleteRemove(t)

SpecSignals == Init /\ [][NextSignals]_vars

(* Concurrent CreateItem calls that create items in the default collection *)

NextCreate ==
    \/ \E id \in SessionIds : OpenSession(Client1, "plain", id)
    \/ \E t \in Tasks, session \in SessionIds, attrs \in AttrMaps, secret_id \in SecIds :
           CreateItemCall(t, DefaultAlias, Client1, session, Payload1, None, attrs, FALSE,
                          secret_id)
    \/ \E t \in Tasks : CreateItemWrite(t)
    \/ \E t \in Tasks : CreateItemCommit(t)
    \/ \E t \in Tasks : CreateItemRegister(t)
    \/ \E t \in Tasks : CreateItemSignal(t)
    \/ \E t \in Tasks : CreateItemReturn(t)

SpecCreate == Init /\ [][NextCreate]_vars

(* Sessions with their watcher tasks: clients open and close sessions and leave *)
(* the bus; every session has an id of its own                                *)
NextWatch ==
    \/ \E t \in Tasks, sender \in Clients, algorithm \in Algorithms, id \in SessionIds :
           OpenSessionNew(t, sender, algorithm, id)
    \/ \E t \in Tasks : OpenSessionAt(t)
    \/ \E t \in Tasks, sender \in Clients, id \in SessionIds : CloseDispatch(t, sender, id)
    \/ \E t \in Tasks : CloseRemove(t)
    \/ \E t \in Tasks : CloseSend(t)
    \/ \E c \in Clients : Disconnect(c)
    \/ \E s \in SessionIds : WatcherProxy(s)
    \/ \E s \in SessionIds : WatcherSubscribe(s)
    \/ \E s \in SessionIds : WatcherClosed(s)
    \/ \E s \in SessionIds : WatcherNameGone(s)

\* the executor runs every task that can go on: the watcher tasks and the calls
\* that are being handled; what the clients do is up to them
SpecWatch ==
    /\ Init /\ [][NextWatch]_vars
    /\ \A s \in SessionIds : WF_vars(Watcher(s))
    /\ \A t \in Tasks : WF_vars(Handler(t))

(* The session transports (src/src/dbus_server/secret_transfer.rs), on scaled  *)
(* numbers: a byte has two bits, an AES block and an AES key have BLOCK_SIZE    *)
(* bytes, the DH prime has KEY_BYTES bytes.  The cipher of a block is a keyed   *)
(* permutation of the blocks; HKDF is a function that maps different inputs to  *)
(* different keys.                                                              *)
\* the values of a u8
ByteBase == 4
\* the bytes of an AES block (U16)
BLOCK_SIZE == 2
\* the bytes of the DH prime and of a padded shared secret (128)
KEY_BYTES == 2
\* base for DH
TWO == 2
\* the DH prime: the largest prime of KEY_BYTES bytes; TWO generates its group
DH_SECOND_OAKLEY_PRIME == 13

Byte == 0..(ByteBase - 1)
ByteSeqs(lo, hi) == UNION {[1..k -> Byte] : k \in lo..hi}
Blocks == [1..BLOCK_SIZE -> Byte]
Zeros(n) == [i \in 1..n |-> 0]

\* a ^ b on two bytes
Xor(a, b) == (((a \div 2) + (b \div 2)) % 2) * 2 + ((a + b) % 2)
XorBlock(x, y) == [i \in 1..BLOCK_SIZE |-> Xor(x[i], y[i])]

\* BigUint::to_bytes_be: the big-endian bytes without leading zero bytes, one
\* zero byte for zero
RECURSIVE to_bytes_be(_)
to_bytes_be(n) ==
    IF n < ByteBase THEN <<n>> ELSE to_bytes_be(n \div ByteBase) \o <<n % ByteBase>>

\* BigUint::from_bytes_be
RECURSIVE from_bytes_be(_)
from_bytes_be(bytes) ==
    IF bytes = <<>> THEN 0
    ELSE from_bytes_be(SubSeq(bytes, 1, Len(bytes) - 1)) * ByteBase + bytes[Len(bytes)]

\* BigUint::modpow
RECURSIVE modpow(_, _, _)
modpow(base, exponent, modulus) ==
    IF exponent = 0 THEN 1 % modulus
    ELSE (base * modpow(base, exponent - 1, modulus)) % modulus

\* a byte string padded with zero bytes on the left to KEY_BYTES bytes
left_padded(bytes) == Zeros(KEY_BYTES - Len(bytes)) \o bytes

\* Hkdf::<Sha256>::new(None, ikm) and expand(&[], okm): the key made of ikm
hkdf(ikm) == [ikm |-> ikm]

\* Aes128 on one block: a permutation of the blocks for every key
aes_encrypt_block(key, block) ==
    [i \in 1..BLOCK_SIZE |-> Xor(block[BLOCK_SIZE + 1 - i], key[i])]
aes_decrypt_block(key, block) ==
    [i \in 1..BLOCK_SIZE |-> Xor(block[BLOCK_SIZE + 1 - i], key[BLOCK_SIZE + 1 - i])]

\* cbc::Encryptor on whole blocks; prev is the IV or the block before
RECURSIVE cbc_encrypt(_, _, _)
cbc_encrypt(key, prev, data) ==
    IF data = <<>> THEN <<>>
    ELSE LET c == aes_encrypt_block(key, XorBlock(SubSeq(data, 1, BLOCK_SIZE), prev))
         IN  c \o cbc_encrypt(key, c, SubSeq(data, BLOCK_SIZE + 1, Len(data)))

\* cbc::Decryptor on whole blocks
RECURSIVE cbc_decrypt(_, _, _)
cbc_decrypt(key, prev, data) ==
    IF data = <<>> THEN <<>>
    ELSE LET c == SubSeq(data, 1, BLOCK_SIZE)
         IN  XorBlock(aes_decrypt_block(key, c), prev)
                 \o cbc_decrypt(key, c, SubSeq(data, BLOCK_SIZE + 1, Len(data)))

\* Pkcs7 padding: n bytes of value n, a whole block for a value of whole blocks
pkcs7_pad(value) ==
    LET n == BLOCK_SIZE - (Len(value) % BLOCK_SIZE)
    IN  value \o [i \in 1..n |-> n]

\* Pkcs7 unpadding of whole blocks: the value, or None on invalid padding
pkcs7_unpad(data) ==
    IF data = <<>> THEN None
    ELSE LET n == data[Len(data)]
         IN  IF n = 0 \/ n > BLOCK_SIZE THEN None
             ELSE IF \E i \in (Len(data) - n + 1)..Len(data) : data[i] # n THEN None
             ELSE SubSeq(data, 1, Len(data) - n)

\* the sessions' transports: the plain one and the DH one with its shared key
PlainTextTransfer == [algorithm |-> "plain", shared_key |-> <<>>]
DhTransfer(shared_key) ==
    [algorithm |-> "dh-ietf1024-sha256-aes128-cbc-pkcs7", shared_key |-> shared_key]

\* SessionTransfer::encrypt of both transports; iv is what OsRng gives
encrypt(transfer, value, iv) ==
    IF transfer.algorithm = "plain"
    THEN [parameters |-> <<>>, value |-> value, content_type |-> "text/plain"]
    ELSE [parameters |-> iv,
          value |-> cbc_encrypt(transfer.shared_key, iv, pkcs7_pad(value)),
          content_type |-> "text/plain"]

\* a variant of decrypt that takes an IV of zero bytes instead of the parameters
decrypt_zero_iv(transfer, secret) ==
    IF transfer.algorithm = "plain" THEN [result |-> "ok", val |-> secret.value]
    ELSE IF Len(secret.parameters) # BLOCK_SIZE THEN [result |-> "panic", val |-> <<>>]
    ELSE IF Len(secret.value) % BLOCK_SIZE # 0
    THEN [result |-> "EncryptionError", val |-> <<>>]
    ELSE LET plain == pkcs7_unpad(cbc_decrypt(transfer.shared_key, Zeros(BLOCK_SIZE),
                                              secret.value))
         IN  IF plain = None THEN [result |-> "EncryptionError", val |-> <<>>]
             ELSE [result |-> "ok", val |-> plain]

\* SessionTransfer::decrypt of both transports; GenericArray::from_slice panics
\* on a slice that has not the length of the array
decrypt(transfer, secret) ==
    IF transfer.algorithm = "plain" THEN [result |-> "ok", val |-> secret.value]
    ELSE IF Len(secret.parameters) # BLOCK_SIZE THEN [result |-> "panic", val |-> <<>>]
    ELSE IF Len(secret.value) % BLOCK_SIZE # 0
    THEN [result |-> "EncryptionError", val |-> <<>>]
    ELSE LET plain == pkcs7_unpad(cbc_decrypt(transfer.shared_key, secret.parameters,
                                              secret.value))
         IN  IF plain = None THEN [result |-> "EncryptionError", val |-> <<>>]
             ELSE [result |-> "ok", val |-> plain]

\* DhIetf1024Sha256Aes128CbcPkcs7Transfer::new; priv_key is what OsRng gives
dh_new(client_pub_key, priv_key) ==
    LET unpadded == to_bytes_be(modpow(from_bytes_be(client_pub_key), priv_key,
                                       DH_SECOND_OAKLEY_PRIME))
        shared_secret == unpadded \o Zeros(KEY_BYTES - Len(unpadded))
    IN  [server_priv |-> priv_key, shared_secret |-> shared_secret,
         shared_key |-> hkdf(shared_secret)]

\* DhIetf1024Sha256Aes128CbcPkcs7Transfer::get_pub_key
get_pub_key(transfer) == to_bytes_be(modpow(TWO, transfer.server_priv, DH_SECOND_OAKLEY_PRIME))

\* the inputs: payloads, keys, IVs, the Secrets a client may send, exponents and
\* the public values a client may send.  A transport keeps nothing between two
\* calls, so that each call is taken once, from the initial state
Plaintexts == ByteSeqs(0, MaxLen)
Ciphertexts == ByteSeqs(0, 2 * BLOCK_SIZE)
Parameters == {<<>>, <<1>>, <<0, 0>>, <<2, 3>>, <<1, 2, 3>>}
Keys == {<<0, 0>>, <<1, 2>>, <<3, 1>>}
Transfers == {PlainTextTransfer} \cup {DhTransfer(k) : k \in Keys}
Exponents == 0..(ByteBase * ByteBase - 1)
PublicValues == ByteSeqs(0, KEY_BYTES)

\* encrypt of a payload followed by decrypt of the Secret by the same session
EncryptDecrypt(transfer, value, iv) ==
    /\ pure = NoCall
    /\ pure' = [fn |-> "decrypt(encrypt)", arg |-> <<transfer, value, iv>>,
                val |-> decrypt(transfer, encrypt(transfer, value, iv))]
    /\ UNCHANGED <<storeVars, objects, last_access, last, tasks, watchVars>>

\* decrypt of a Secret a client sends to a session
Decrypt(transfer, parameters, value) ==
    /\ pure = NoCall
    /\ pure' = [fn |-> "decrypt", arg |-> <<transfer, parameters, value>>,
                val |-> decrypt(transfer, [parameters |-> parameters, value |-> value,
                                           content_type |-> "text/plain"])]
    /\ UNCHANGED <<storeVars, objects, last_access, last, tasks, watchVars>>

\* Service::open_session for the DH algorithm: the transfer and the public value
\* returned to the client
OpenSessionDh(client_pub_key, priv_key) ==
    LET transfer == dh_new(client_pub_key, priv_key)
    IN  /\ pure = NoCall
        /\ pure' = [fn |-> "OpenSession", arg |-> <<client_pub_key, priv_key>>,
                    val |-> [transfer |-> transfer, pub_key |-> get_pub_key(transfer)]]
        /\ UNCHANGED <<storeVars, objects, last_access, last, tasks, watchVars>>

(* The transports: round trips, Secrets sent by clients and DH key agreement *)
NextTransfer ==
    \/ \E transfer \in Transfers, value \in Plaintexts, iv \in Blocks :
           EncryptDecrypt(transfer, value, iv)
    \/ \E transfer \in Transfers, parameters \in Parameters, value \in Ciphertexts :
           Decrypt(transfer, parameters, value)
    \/ \E client_pub_key \in PublicValues, priv_key \in Exponents :
           OpenSessionDh(client_pub_key, priv_key)

SpecTransfer == Init /\ [][NextTransfer]_vars

(* The stored form of the attribute maps (src/src/secret_store/redb_imps.rs), on *)
(* scaled integers: a u8 has three bits, a u16 two such bytes, a u32 four.       *)
\* u8::MAX (255)
U8_MAX == 7
U16_MAX == (U8_MAX + 1) * (U8_MAX + 1) - 1
U32_MAX == (U16_MAX + 1) * (U16_MAX + 1) - 1
U8 == 0..U8_MAX

\* to_le_bytes of an integer of width bytes
RECURSIVE to_le_bytes(_, _)
to_le_bytes(int, width) ==
    IF width = 0 THEN <<>>
    ELSE <<int % (U8_MAX + 1)>> \o to_le_bytes(int \div (U8_MAX + 1), width - 1)

\* u16::from_le_bytes and u32::from_le_bytes
RECURSIVE from_le_bytes(_)
from_le_bytes(bytes) ==
    IF bytes = <<>> THEN 0
    ELSE bytes[1] + (U8_MAX + 1) * from_le_bytes(Tail(bytes))

\* Read::read_exact of n bytes at position pos of a cursor: the bytes, or an
\* error at the end of the data
read_exact(data, pos, n) ==
    IF pos + n > Len(data) THEN [ok |-> FALSE, val |-> <<>>, pos |-> pos]
    ELSE [ok |-> TRUE, val |-> SubSeq(data, pos + 1, pos + n), pos |-> pos + n]

\* decode_int at position pos: the integer and the position behind it
decode_int(data, pos) ==
    LET first == read_exact(data, pos, 1)
    IN  IF ~first.ok THEN [ok |-> FALSE, val |-> 0, pos |-> pos]
        ELSE IF first.val[1] = U8_MAX
        THEN LET int_buf == read_exact(data, first.pos, 4)
             IN  [ok |-> int_buf.ok, val |-> from_le_bytes(int_buf.val), pos |-> int_buf.pos]
        ELSE IF first.val[1] = U8_MAX - 1
        THEN LET short_buf == read_exact(data, first.pos, 2)
             IN  [ok |-> short_buf.ok, val |-> from_le_bytes(short_buf.val),
                  pos |-> short_buf.pos]
        ELSE [ok |-> TRUE, val |-> first.val[1], pos |-> first.pos]

\* a variant of encode_int that writes one byte for every integer below u8::MAX
encode_int_below_max(int) ==
    IF int < U8_MAX THEN <<int>>
    ELSE IF int <= U16_MAX THEN <<U8_MAX - 1>> \o to_le_bytes(int, 2)
    ELSE IF int <= U32_MAX THEN <<U8_MAX>> \o to_le_bytes(int, 4)
    ELSE <<>>

\* encode_int: the bytes written to the end of the buffer
encode_int(int) ==
    IF int < U8_MAX - 2 THEN <<int>>
    ELSE IF int <= U16_MAX THEN <<U8_MAX - 1>> \o to_le_bytes(int, 2)
    ELSE IF int <= U32_MAX THEN <<U8_MAX>> \o to_le_bytes(int, 4)
    ELSE <<>>

\* a variant of as_bytes that writes the values without their length
RECURSIVE as_bytes_entries_no_val_len(_)
as_bytes_entries_no_val_len(entries) ==
    IF entries = <<>> THEN <<>>
    ELSE LET k == entries[1][1]
             v == entries[1][2]
         IN  encode_int(Len(k)) \o k \o v \o as_bytes_entries_no_val_len(Tail(entries))

\* RedbHashMap::as_bytes, the loop: entries are the pairs of the map in the order
\* in which the HashMap yields them; keys and values are strings, of no fixed width
RECURSIVE as_bytes_entries(_)
as_bytes_entries(entries) ==
    IF entries = <<>> THEN <<>>
    ELSE LET k == entries[1][1]
             v == entries[1][2]
         IN  encode_int(Len(k)) \o k \o encode_int(Len(v)) \o v
                 \o as_bytes_entries(Tail(entries))

\* RedbHashMap::as_bytes
as_bytes(entries) == encode_int(Len(entries)) \o as_bytes_entries(entries)

\* RedbHashMap::from_bytes, the loop: the map read so far, or a panic on a failed
\* decode_int or on a slice behind the end of the data
RECURSIVE from_bytes_entries(_, _, _, _)
from_bytes_entries(data, pos, len, map) ==
    IF len = 0 THEN [result |-> "ok", val |-> map]
    ELSE LET key_len == decode_int(data, pos)
             key == read_exact(data, key_len.pos, key_len.val)
             val_len == decode_int(data, key.pos)
             val == read_exact(data, val_len.pos, val_len.val)
         IN  IF ~key_len.ok \/ ~key.ok \/ ~val_len.ok \/ ~val.ok
             THEN [result |-> "panic", val |-> {}]
             ELSE from_bytes_entries(data, val.pos, len - 1,
                                     {e \in map : e[1] # key.val} \cup {<<key.val, val.val>>})

\* RedbHashMap::from_bytes
from_bytes(data) ==
    LET len == decode_int(data, 0)
    IN  IF ~len.ok THEN [result |-> "panic", val |-> {}]
        ELSE from_bytes_entries(data, len.pos, len.val, {})

\* the inputs: the integers of a u32, the bytes written behind an integer, and the
\* maps of up to NumKeys keys, each in every order a HashMap may yield its pairs
NumKeys == 5
KeyPool == <<<<1>>, <<6, 7>>, <<>>, <<1, 2, 3, 4, 5>>, <<2>>, <<3>>>>
MapKeys == {KeyPool[i] : i \in 1..NumKeys}
MapVals == {<<>>, <<7, 7, 7, 7, 7, 7>>}
Tails == {<<>>, <<U8_MAX>>}
EntryLists ==
    {entries \in UNION {[1..n -> MapKeys \X MapVals] : n \in 0..NumKeys} :
        \A i, j \in DOMAIN entries : i # j => entries[i][1] # entries[j][1]}

\* encode_int of an integer, bytes written behind it, and decode_int of the buffer
EncodeDecodeInt(int, tail) ==
    /\ pure = NoCall
    /\ pure' = [fn |-> "decode_int(encode_int)", arg |-> <<int, tail>>,
                val |-> decode_int(encode_int(int) \o tail, 0)]
    /\ UNCHANGED <<storeVars, objects, last_access, last, tasks, watchVars>>

\* as_bytes of a map and from_bytes of the bytes
HashMapRoundTrip(entries) ==
    /\ pure = NoCall
    /\ pure' = [fn |-> "from_bytes(as_bytes)", arg |-> entries,
                val |-> from_bytes(as_bytes(entries))]
    /\ UNCHANGED <<storeVars, objects, last_access, last, tasks, watchVars>>

(* The stored form: integers and attribute maps written and read back *)
NextRedb ==
    \/ \E int \in 0..U32_MAX, tail \in Tails : EncodeDecodeInt(int, tail)
    \/ \E entries \in EntryLists : HashMapRoundTrip(entries)

SpecRedb == Init /\ [][NextRedb]_vars

(* Collection.Delete on the default collection while CreateItem calls on it are *)
(* in flight                                                                    *)
NextRace ==
    \/ \E id \in SessionIds : OpenSession(Client1, "plain", id)
    \/ \E t \in Tasks, path \in CollectionPaths, session \in SessionIds, secret_id \in SecIds :
           CreateItemCall(t, path, Client1, session, Payload1, None, {}, FALSE, secret_id)
    \/ \E t \in Tasks : CreateItemWrite(t)
    \/ \E t \in Tasks : CreateItemCommit(t)
    \/ \E t \in Tasks : CreateItemRegister(t)
    \/ \E t \in Tasks : CreateItemSignal(t)
    \/ \E t \in Tasks : CreateItemReturn(t)
    \/ \E path \in CollectionPaths : CollectionDelete(path)

SpecRace == Init /\ [][NextRace]_vars

(* slugify on strings of letters, digits, underscores and blanks *)
Chars == {"a", "B", "7", "_", " "}
Strings == UNION {[1..k -> Chars] : k \in 0..MaxLen}
HelloWorld == <<" ", " ", "H", "e", "l", "l", "o", ",", " ", "W", "o", "r", "l", "d", "!", " ", " ">>

\* slugify applied to a string
Slugify(chars) ==
    /\ pure' = [fn |-> "slugify", arg |-> chars, val |-> slugify_chars(chars)]
    /\ UNCHANGED <<storeVars, objects, last_access, last, tasks, watchVars>>

NextSlug == \E chars \in Strings \cup {HelloWorld} : Slugify(chars)

SpecSlug == Init /\ [][NextSlug]_vars

(* Searches and create_collection calls on the pool of blocking threads *)
NextPool ==
    \/ \E t \in Tasks, collection_id \in NewIds, attrs \in AttrMaps :
           SearchCollectionSpawn(t, collection_id, attrs)
    \/ \E t \in Tasks : SearchCollectionWorker(t)
    \/ \E t \in Tasks : \E first \in FirstOf(tasks[t].attrs) : SearchCollectionRead(t, first)
    \/ \E t \in Tasks, alias \in Aliases \cup {None}, new_id \in NewIds :
           StoreCreateSpawn(t, Label1, alias, new_id)
    \/ \E t \in Tasks : StoreCreateTx(t)
    \/ \E t \in Tasks : StoreCreateWrite(t)
    \/ \E t \in Tasks : StoreCreateMakeDir(t)
    \/ \E t \in Tasks : StoreCreateOpenDb(t)

SpecPool == Init /\ [][NextPool]_vars

\* a step of a call on the store that is under way
PoolStep(t) ==
    \/ SearchCollectionWorker(t)
    \/ \E first \in AttrPairs \cup {NoPair} : SearchCollectionRead(t, first)
    \/ StoreCreateTx(t) \/ StoreCreateWrite(t) \/ StoreCreateMakeDir(t) \/ StoreCreateOpenDb(t)

(* The service stops and starts again: collections and aliases are made, set *)
(* and deleted, on a store that holds a directory named default; nanoid      *)
(* gives ids that no directory has                                           *)
NextRestart ==
    \/ \E label \in GivenLabels \cup {Label1}, name \in GivenNames, new_id \in NewIds \ dirs :
           CreateCollection(label, name, new_id)
    \/ \E name \in GivenNames, collection \in TargetPaths : SetAlias(name, collection)
    \/ \E path \in CollectionPaths : CollectionDelete(path)
    \/ \E new_id \in NewIds : Restart(new_id)

SpecRestart == InitForeign /\ [][NextRestart]_vars

(* SetAlias calls, repeated or not, on collections with and without items *)
NextAlias ==
    \/ \E id \in SessionIds : OpenSession(Client1, "plain", id)
    \/ \E new_id \in NewIds : CreateCollection(Label1, "", new_id)
    \/ \E name \in GivenNames, collection \in TargetPaths : SetAliasNoted(name, collection)
    \/ \E c \in ColIds, session \in SessionIds :
           CreateItem(collection_path(c), Client1, session, Payload1, None, {}, FALSE,
                      Secret1, NoPair)

SpecAlias == Init /\ [][NextAlias]_vars

(* Item.Delete handlers in flight together on the items of the default collection *)
NextDelete ==
    \/ \E id \in SessionIds : OpenSession(Client1, "plain", id)
    \/ \E session \in SessionIds, attrs \in AttrMaps, new_id \in SecIds :
           CreateItem(alias_path(DEFAULT_COLLECTION_NAME), Client1, session, Payload1, None,
                      attrs, FALSE, new_id, NoPair)
    \/ \E t \in Tasks, path \in ItemPaths : ItemDeleteStore(t, path)
    \/ \E t \in Tasks : ItemDeleteSignal(t)
    \/ \E t \in Tasks : ItemDeleteRemove(t)

SpecDelete == Init /\ [][NextDelete]_vars

-----------------------------------------------------------------------------
(* The claims *)

\* an Item object of the secret is registered at the path
ItemAt(path, collection_id, secret_id) ==
    HasInterface(objects, path, "Item") /\ objects[path] = ItemObject(collection_id, secret_id)

\* C1: in every state reached by successful calls, for every collection C, every
\* alias a that maps to C and every secret s, an Item object is registered at
\* collection/C/s if and only if an Item object of (C, s) is registered at
\* aliases/a/s.
C1_AliasItemsMirrorCanonical ==
    \A a \in Aliases, s \in SecIds :
        aliases[a] \in collection_dbs =>
            (HasInterface(objects, secret_path(aliases[a], s), "Item")
                <=> ItemAt(secret_alias_path(a, s), aliases[a], s))

\* C5: after any sequence of create_collection, set_alias and delete_collection
\* calls, no alias is in the alias set (aliases_reverse) of two distinct
\* collections.
C5_AliasesPartition ==
    \A a \in Aliases, c1, c2 \in ColIds :
        (<<c1, a>> \in aliases_reverse /\ <<c2, a>> \in aliases_reverse) => c1 = c2

\* SetAlias moved an alias from one collection to another while a third
\* association exists
C5_Witness ==
    /\ last.op = "SetAlias" /\ last.result = "ok"
    /\ last.old \in ColIds
    /\ \E a \in Aliases : aliases[a] \in ColIds \ {last.old}
    /\ Cardinality(aliases_reverse) = 2

\* C6: in every state between two calls, successful or failed, for every
\* collection C the secret ids with an Item object registered under collection/C
\* are the .gpg files of the directory of C, the result of list_secrets(C).
C6_ItemObjectsAreFiles ==
    \A c \in collection_dbs :
        {s \in SecIds : HasInterface(objects, secret_path(c, s), "Item")}
            = list_secrets(Store, c).val

\* the CollectionChanged signals for a collection among the signals of a reply
Changed(signals, collection_id) ==
    {i \in DOMAIN signals : /\ signals[i].name = "CollectionChanged"
                            /\ signals[i].arg = collection_path(collection_id)}

\* C7: if alias a maps to collection C1 and SetAlias(a, path of C2) succeeds, then
\* afterwards no object is registered at aliases/a/s for a secret s of C1, an Item
\* object is registered at aliases/a/s for every secret s of C2, a Collection
\* object of C2 is registered at aliases/a, and ReadAlias(a) returns the canonical
\* path of C2.
C7_SetAliasMovesTheMirror ==
    [][\A name \in GivenNames, c1, c2 \in ColIds :
         (/\ c1 # c2
          /\ get_alias(Store, slugify(name)) = Ok(Store, c1)
          /\ SetAlias(name, collection_path(c2))
          /\ last'.result = "ok")
         => LET a == slugify(name)
            IN  /\ \A s \in SecIds :
                       (files[<<c1, s>>] # NoFile /\ files'[<<c2, s>>] = NoFile)
                           => objects'[secret_alias_path(a, s)] = NoObject
                /\ \A s \in SecIds :
                       files'[<<c2, s>>] # NoFile
                           => objects'[secret_alias_path(a, s)] = ItemObject(c2, s)
                /\ objects'[alias_path(a)] = CollectionObject(c2)
                /\ aliases'[a] = c2]_vars

\* C8: a successful SetAlias that moves an alias from collection C1 to a different
\* collection C2 emits two CollectionChanged signals, one for the old target C1
\* and one for the new target C2.
C8_SetAliasEmitsCollectionChanged ==
    [][\A name \in GivenNames, c1, c2 \in ColIds :
         (/\ c1 # c2
          /\ get_alias(Store, slugify(name)) = Ok(Store, c1)
          /\ SetAlias(name, collection_path(c2))
          /\ last'.result = "ok")
         => /\ Cardinality(Changed(last'.signals, c1)) = 1
            /\ Cardinality(Changed(last'.signals, c2)) = 1
            /\ Len(last'.signals) = 2]_vars

\* C9: after SetAlias(name, "/") succeeds, no Collection object is registered at
\* aliases/name, no Item object is registered at any aliases/name/s, the alias
\* table has no entry for name, and every object on the canonical paths of the
\* former target is still registered.
C9_SetAliasToNoneClears ==
    [][\A name \in GivenNames :
         (SetAlias(name, EMPTY_PATH) /\ last'.result = "ok")
         => LET a == slugify(name)
            IN  /\ ~HasInterface(objects', alias_path(a), "Collection")
                /\ \A s \in SecIds : ~HasInterface(objects', secret_alias_path(a, s), "Item")
                /\ aliases'[a] = None
                /\ \A c \in ColIds : <<c, a>> \notin aliases_reverse'
                /\ \A c \in ColIds :
                       aliases[a] = c
                           => /\ objects'[collection_path(c)] = objects[collection_path(c)]
                              /\ \A s \in SecIds :
                                     objects'[secret_path(c, s)] = objects[secret_path(c, s)]]_vars

\* SetAlias to "/" has cleared an alias whose collection holds an item: the
\* collection and the item are registered on the canonical paths, nothing is on
\* the alias paths
C9_Witness ==
    /\ last.op = "SetAlias" /\ last.result = "ok"
    /\ last.old \in collection_dbs
    /\ \A a \in Aliases : aliases[a] = None /\ objects[alias_path(a)] = NoObject
    /\ \E s \in SecIds : ItemAt(secret_path(last.old, s), last.old, s)
    /\ HasInterface(objects, collection_path(last.old), "Collection")

\* C10: ReadAlias(name) returns the path "/", not an error, whenever name maps to
\* no collection.
C10_ReadAliasOfUnknownName ==
    [][\A name \in GivenNames :
         (~get_alias(Store, slugify(name)).ok /\ ReadAlias(name))
         => (last'.result = "ok" /\ last'.ret = {EMPTY_PATH})]_vars

\* C3: after any sequence of create_secret, set_secret_attrs and delete_secret
\* calls on a collection, the forward attribute table holds the edge (k, v) -> s
\* if and only if the entry of s in the reverse table holds the pair (k, v).
C3_AttributeTablesInverse ==
    \A c \in ColIds, s \in SecIds, p \in AttrPairs :
        <<c, p[1], p[2], s>> \in attributes
            <=> \E secret_attrs \in attributes_reverse[<<c, s>>] : p \in secret_attrs

\* C4: search_collection(C, Q) returns the secret s of C if and only if Q is not
\* empty and every pair of Q is among the attributes of s; an empty Q returns the
\* empty list.
C4_SearchIsSubsetContainment ==
    [][\A path \in CollectionPaths, attrs \in AttrMaps :
         \A first \in FirstOf(attrs) :
             (CollectionSearchItems(path, attrs, first) /\ last'.result = "ok")
             => LET c == objects[path].collection_id
                IN  \A s \in SecIds :
                        secret_path(c, s) \in last'.ret
                            <=> /\ attrs # {}
                                /\ \E secret_attrs \in attributes_reverse[<<c, s>>] :
                                       attrs \subseteq secret_attrs]_vars

\* the session is registered and the sender is not the client that opened it
NotTheOpener(sender, session) ==
    /\ HasInterface(objects, session_path(session), "Session")
    /\ objects[session_path(session)].client_name # sender

\* the call left no payload in its reply, wrote nothing to the store and left
\* the session as it was
NothingLeakedOrWritten(session) ==
    /\ last'.secrets = {}
    /\ UNCHANGED storeVars
    /\ objects'[session_path(session)] = objects[session_path(session)]

\* SetSecret, CreateItem or Close of the sender naming the session
WritingCall(sender, session) ==
    \/ \E path \in ItemPaths, value \in Payloads : SetSecret(path, sender, session, value)
    \/ \E path \in CollectionPaths, value \in Payloads :
           CreateItem(path, sender, session, value, None, {}, FALSE, Secret1, NoPair)
    \/ Close(sender, session)

\* GetSecret or GetSecrets of the sender naming the session
ReadingCall(sender, session) ==
    \/ \E path \in ItemPaths : GetSecret(path, sender, session)
    \/ \E items \in ItemLists : GetSecrets(items, sender, session)

DeniedRead(path) ==
    IF ~HasInterface(objects, path, "Item") THEN "NoSuchObject"
    ELSE IF read_secret(Store, objects[path].collection_id, objects[path].id).ok
         THEN "AccessDenied"
         ELSE "NoSuchObject"

C11_DeleteRemovesEverything ==
    [][\A path \in CollectionPaths :
         (CollectionDelete(path) /\ last'.result = "ok")
         => LET c == objects[path].collection_id
            IN  /\ objects'[collection_path(c)] = NoObject
                /\ \A s \in SecIds : objects'[secret_path(c, s)] = NoObject
                /\ \A a \in Aliases :
                       aliases[a] = c
                           => /\ objects'[alias_path(a)] = NoObject
                              /\ \A s \in SecIds : objects'[secret_alias_path(a, s)] = NoObject
                /\ \A a \in Aliases : aliases'[a] # c
                /\ \A a \in Aliases : <<c, a>> \notin aliases_reverse'
                /\ c \notin collection_dbs'
                /\ c \notin dirs'
                /\ Cardinality({i \in DOMAIN last'.signals :
                                  last'.signals[i] = Signal(SERVICE_PATH, "CollectionDeleted",
                                                            collection_path(c))}) = 1]_vars

\* Collection.Delete has deleted the collection that had the alias default while
\* another collection with an item stays registered
C11_Witness ==
    /\ last.op = "Collection.Delete" /\ last.result = "ok"
    /\ last.old = CollectionIdPool[1]
    /\ last.old \notin collection_dbs
    /\ \A a \in Aliases : aliases[a] = None
    /\ \E c \in collection_dbs, s \in SecIds :
           /\ HasInterface(objects, collection_path(c), "Collection")
           /\ ItemAt(secret_path(c, s), c, s)

\* the attributes the Attributes property of the item reads
AttributesOf(collection_id, secret_id) ==
    UNION attributes_reverse[<<collection_id, secret_id>>]

\* a CreateItem call of a task has returned the path of an item it created
Created(f) == f.op = "CreateItem" /\ f.pc = "returned" /\ f.result = "ok" /\ ~f.found

C13_ReplaceOrCreate ==
    [][\A session \in SessionIds, attrs \in AttrMaps, replace \in BOOLEAN,
          secret_id \in SecIds, value \in Payloads, label \in Labels :
         \A first \in FirstOf(attrs) :
           (/\ CreateItem(DefaultAlias, Client1, session, value, label, attrs, replace,
                          secret_id, first)
            /\ last'.result = "ok")
           => LET c == objects[DefaultAlias].collection_id
                  before == SecretsOf(Store, c)
                  after == {s \in SecIds : files'[<<c, s>>] # NoFile}
                  matches == {s \in before : attrs # {} /\ attrs \subseteq AttributesOf(c, s)}
                  Emitted(name, item) ==
                      \E i \in DOMAIN last'.signals :
                          last'.signals[i] = Signal(collection_path(c), name, item)
              IN  IF replace /\ matches # {}
                  THEN \E s \in matches :
                           /\ last'.ret = {secret_path(c, s)}
                           /\ files'[<<c, s>>] = value
                           /\ secret_labels'[<<c, s>>] =
                                  IF label # None THEN label ELSE secret_labels[<<c, s>>]
                           /\ after = before
                           /\ objects' = objects
                           /\ Emitted("ItemChanged", secret_path(c, s))
                           /\ \A x \in SecIds : ~Emitted("ItemCreated", secret_path(c, x))
                  ELSE \E s \in SecIds \ before :
                           /\ last'.ret = {secret_path(c, s)}
                           /\ after = before \cup {s}
                           /\ files'[<<c, s>>] = value
                           /\ ItemAt(secret_path(c, s), c, s)'
                           /\ \A a \in Aliases :
                                  aliases'[a] = c => ItemAt(secret_alias_path(a, s), c, s)'
                           /\ Emitted("ItemCreated", secret_path(c, s))]_vars

\* C14: CreateCollection with a name whose alias already maps to a collection C
\* creates no collection and no object, returns the path of C and leaves the
\* collections and the alias table as they were; the label of C becomes the
\* given label, or the default label when none is given and C had none, and
\* stays as it was otherwise.
C14_CreateCollectionOnExistingAlias ==
    [][\A label \in Labels, name \in GivenNames, new_id \in NewIds :
         LET alias == slugify(name)
             c == aliases[alias]
         IN  (alias # "" /\ c # None /\ CreateCollection(label, name, new_id))
             => /\ last'.result = "ok" /\ last'.ret = {collection_path(c)}
                /\ last'.signals = <<>>
                /\ collection_dbs' = collection_dbs
                /\ dirs' = dirs
                /\ objects' = objects
                /\ aliases' = aliases /\ aliases_reverse' = aliases_reverse
                /\ \A d \in ColIds \ {c} : labels'[d] = labels[d]
                /\ labels'[c] = IF label # None THEN label
                                ELSE IF labels[c] = None THEN "Untitled Collection"
                                ELSE labels[c]]_vars

\* CreateCollection without a label has named the alias of a collection that had
\* no label: the path of the collection is returned, no signal is emitted and the
\* collection has the default label
C14_Witness ==
    /\ last.op = "CreateCollection" /\ last.result = "ok"
    /\ last.ret = {collection_path(CollectionIdPool[2])}
    /\ last.signals = <<>>
    /\ last.old = CollectionIdPool[2]
    /\ aliases["work"] = CollectionIdPool[2]
    /\ labels[CollectionIdPool[2]] = "Untitled Collection"

\* C15: under every interleaving of concurrent CreateCollection calls, a call
\* that emits CollectionCreated for a path has added the Collection object at
\* that path, and no two calls in flight emit CollectionCreated for one path.
C15_CollectionCreatedOnlyByTheAdder ==
    /\ \A t \in Tasks :
           (tasks[t].op = "CreateCollection" /\ tasks[t].signals # <<>>) => tasks[t].added
    /\ \A t, u \in Tasks :
           (/\ t # u
            /\ tasks[t].op = "CreateCollection" /\ tasks[u].op = "CreateCollection"
            /\ tasks[t].pc # "returned" /\ tasks[u].pc # "returned"
            /\ tasks[t].signals # <<>>)
           => tasks[u].signals # tasks[t].signals

\* the mutation that the signals of the call f report is complete: the item is
\* registered at (or removed from) the canonical path and the path of every alias,
\* and the store holds (or no longer holds) the secret
MutationComplete(f) ==
    LET key == <<f.id, f.secret>>
        paths == {secret_path(f.id, f.secret)}
                     \cup {secret_alias_path(a, f.secret) : a \in {a \in Aliases : aliases[a] = f.id}}
    IN  IF f.op = "Item.Delete"
        THEN /\ \A p \in paths : objects[p] = NoObject
             /\ files[key] = NoFile /\ attributes_reverse[key] = {}
        ELSE /\ \A p \in paths : objects[p] = ItemObject(f.id, f.secret)
             /\ files[key] # NoFile /\ attributes_reverse[key] # {}

\* C16: whenever a call emits its ItemCreated, ItemChanged or ItemDeleted signal,
\* the mutation the signal reports is complete: the change of the object graph is
\* in place on every path and the change of the store is committed.
C16_SignalsAfterTheMutation ==
    [][\A t \in Tasks :
         (tasks[t].signals = <<>> /\ tasks'[t].signals # <<>>) => MutationComplete(tasks'[t])]_vars

\* a call that broadcasts a signal for a collection or one of its items has succeeded
Broadcast == last.op \in {"CreateItem", "Item.Delete", "Item.SetSecret"} /\ last.result = "ok"

\* the emissions of the broadcast up to the canonical path: one on the path of
\* every alias of the collection, then one on the canonical path, all with the
\* same signal name and the same item of the collection as argument
AliasesThenCanonical ==
    LET s == last.signals
        c == last.old
        als == {a \in Aliases : aliases[a] = c}
        n == Cardinality(als)
    IN  /\ Len(s) = n + 2
        /\ {s[i].path : i \in 1..n} = {alias_path(a) : a \in als}
        /\ s[n + 1].path = collection_path(c)
        /\ s[n + 1].name \in {"ItemCreated", "ItemChanged", "ItemDeleted"}
        /\ \E x \in SecIds : s[n + 1].arg = secret_path(c, x)
        /\ \A i \in 1..n : s[i].name = s[n + 1].name /\ s[i].arg = s[n + 1].arg
        /\ s[n + 2].path = SERVICE_PATH /\ s[n + 2].name = "CollectionChanged"

\* C17 as stated: the emissions are in the order alias paths, canonical path,
\* service-level CollectionChanged, and all of them carry the same item path.
C17_AsStated ==
    Broadcast => /\ AliasesThenCanonical
                 /\ last.signals[Len(last.signals)].arg
                        = last.signals[Len(last.signals) - 1].arg

\* C17: the emissions are in the order alias paths, canonical path, service-level
\* CollectionChanged; the emissions on the alias paths and the canonical path
\* carry the same item path, and CollectionChanged carries the canonical path of
\* the collection.
C17_BroadcastOrder ==
    Broadcast => /\ AliasesThenCanonical
                 /\ last.signals[Len(last.signals)].arg = collection_path(last.old)

\* CreateItem has broadcast ItemCreated for a collection with two aliases
C17_Witness ==
    /\ Broadcast /\ last.op = "CreateItem"
    /\ Len(last.signals) = 4
    /\ \A a \in Aliases : aliases[a] = last.old

\* C20: CreateItem, Item.SetSecret, Item.GetSecret and Service.GetSecrets that
\* name a session path at which no Session is registered fail with NoSession and
\* change neither the store and its files nor the object graph.
C20_NoSessionChangesNothing ==
    [][\A sender \in Clients, session \in SessionIds :
         (/\ ~HasInterface(objects, session_path(session), "Session")
          /\ \/ \E path \in CollectionPaths, value \in Payloads :
                    CreateItem(path, sender, session, value, None, {}, FALSE, Secret1, NoPair)
             \/ \E path \in ItemPaths, value \in Payloads :
                    SetSecret(path, sender, session, value)
             \/ \E path \in ItemPaths : GetSecret(path, sender, session)
             \/ \E items \in ItemLists : GetSecrets(items, sender, session))
         => /\ last'.result = "NoSession"
            /\ last'.secrets = {} /\ last'.signals = <<>>
            /\ UNCHANGED <<storeVars, objects, last_access>>]_vars

\* Item.SetSecret on a registered item has failed with NoSession after the session
\* that created the item was closed
C20_Witness ==
    /\ last.op = "Item.SetSecret" /\ last.result = "NoSession"
    /\ \E p \in ItemPaths : HasInterface(objects, p, "Item")
    /\ \A x \in SessionIds : ~HasInterface(objects, session_path(x), "Session")

\* the session with the id is registered
SessionAt(s) == HasInterface(objects, session_path(s), "Session")

\* a step in which the close handler or the watcher task of the session acts:
\* close comes back from object_server.remove, or select! completes
CloseActs(s) ==
    \E t \in Tasks : /\ tasks[t].op = "Close" /\ tasks[t].id = s /\ tasks[t].pc = "remove"
                     /\ tasks'[t].pc = "send"
WatcherActs(s) == watchers[s].pc = "select" /\ watchers'[s].pc = "done"

\* C18: however the opener's Close call and the opener's loss of its name
\* interleave, the session object is removed once, in the step of the close
\* handler or of the watcher that acts first; the one that acts on a session that
\* is gone changes nothing in the object graph; the session is registered only by
\* OpenSession, before any Close; and the watcher task terminates once the opener
\* closed the session or the loss of the name reached the watcher.
C18_CloseAndWatcherRace ==
    /\ [][\A s \in SessionIds :
            /\ (SessionAt(s) /\ ~SessionAt(s)') => (CloseActs(s) \/ WatcherActs(s))
            /\ (CloseActs(s) \/ WatcherActs(s))
                 => /\ ~SessionAt(s)'
                    /\ ~SessionAt(s) => objects' = objects
                    /\ \A p \in DOMAIN objects : p # session_path(s) => objects'[p] = objects[p]
            /\ (~SessionAt(s) /\ SessionAt(s)')
                 => /\ watchers[s].rx = "empty"
                    /\ \E t \in Tasks : /\ tasks[t].op = "OpenSession" /\ tasks[t].id = s
                                        /\ tasks[t].pc = "at" /\ tasks'[t].pc = "returned"]_vars
    /\ \A s \in SessionIds :
         /\ (\E t \in Tasks : /\ tasks[t].op = "Close" /\ tasks[t].id = s
                              /\ tasks[t].pc = "remove" /\ tasks[t].sender = watchers[s].name)
              ~> (~SessionAt(s) /\ watchers[s].pc = "done")
         /\ watchers[s].stream ~> (watchers[s].pc = "done")

\* the opener's Close has returned and the loss of its name has reached the
\* watcher, which found both branches of select! ready; the session is gone
C18_Witness ==
    \E s \in SessionIds :
        /\ watchers[s].pc = "done" /\ watchers[s].rx = "sent" /\ watchers[s].stream
        /\ watchers[s].name \notin connected
        /\ last.op = "Close" /\ last.result = "ok"
        /\ ~SessionAt(s)

\* the session with the id is registered for the client
SessionOf(s, c) ==
    /\ HasInterface(objects, session_path(s), "Session")
    /\ objects[session_path(s)].client_name = c

\* C19: when the client that opened a session leaves the bus after OpenSession
\* returned, the session is removed from the object graph in the end, also when
\* the watcher task had not subscribed yet.
C19_DisconnectRemovesSession ==
    \A s \in SessionIds, c \in Clients :
        []((SessionOf(s, c) /\ c \in connected)
            => [](c \notin connected
                    => <>(~HasInterface(objects, session_path(s), "Session"))))

\* C30: slugify returns a string over [a-z0-9_] without leading, trailing or
\* consecutive underscore that holds the ASCII alphanumerics of the input,
\* lower-cased and in order; "  Hello, World!  " gives "hello_world" and "___"
\* gives "".
C30_Slugify ==
    pure.fn = "slugify" =>
        LET out == pure.val
            alnum == SelectSeq(pure.arg, is_ascii_alphanumeric)
        IN  /\ \A i \in DOMAIN out : out[i] \in Range(Lower) \cup Range(Digits) \cup {"_"}
            /\ out # <<>> => out[1] # "_" /\ out[Len(out)] # "_"
            /\ \A i \in 1..(Len(out) - 1) : ~(out[i] = "_" /\ out[i + 1] = "_")
            /\ SelectSeq(out, LAMBDA ch : ch # "_")
                 = [i \in 1..Len(alnum) |-> to_ascii_lowercase(alnum[i])]
            /\ pure.arg = HelloWorld
                 => out = <<"h", "e", "l", "l", "o", "_", "w", "o", "r", "l", "d">>
            /\ pure.arg = <<"_", "_", "_">> => out = <<>>

\* C21: a store mutation appears atomic to the callers that run beside it: at
\* no await of a mutation does the store hold an alias or a label of a collection
\* that is not in the collection list.
C21_StoreMutationsAreAtomic ==
    /\ \A a \in Aliases : aliases[a] # None => aliases[a] \in collection_dbs
    /\ \A c \in ColIds : labels[c] # None => c \in collection_dbs

\* C22: no reachable state is a deadlock: while a call that takes the lock of
\* collection_dbs is under way, some call that is under way can take a step.
C22_NoDeadlock ==
    (\E t \in Tasks : ~Free(t)) => \E t \in Tasks : ENABLED PoolStep(t)

\* the collections that have the alias default, by the alias table and by the
\* reverse table
DefaultCollections(S) ==
    {c \in S.collection_dbs : S.aliases[DEFAULT_COLLECTION_NAME] = c}
    \cup {c \in ColIds : <<c, DEFAULT_COLLECTION_NAME>> \in S.aliases_reverse}

\* C23: after start-up exactly one collection has the alias default; start-up
\* makes a new collection, with the label "Default" and the alias default, if
\* and only if no collection had the alias before.
C23_StartupMakesTheDefaultCollection ==
    [][\A new_id \in NewIds \ dirs :
         Restart(new_id)
         => LET had == aliases[DEFAULT_COLLECTION_NAME] \in dirs
                made == collection_dbs' \ dirs
            IN  /\ Cardinality(DefaultCollections(Store')) = 1
                /\ (made # {}) <=> ~had
                /\ \A c \in made : /\ labels'[c] = "Default"
                                   /\ aliases'[DEFAULT_COLLECTION_NAME] = c]_vars

\* C24: SetAlias called a second time in a row with the same name and the same
\* collection leaves the alias table, the reverse alias table and the object
\* graph as the first call left them.
C24_SetAliasTwice ==
    [][\A name \in GivenNames, collection \in TargetPaths :
         (/\ last.op = "SetAlias"
          /\ pure.fn = "SetAlias" /\ pure.arg = <<name, collection>>
          /\ SetAliasNoted(name, collection))
         => UNCHANGED <<aliases, aliases_reverse, objects>>]_vars

\* SetAlias has just repeated a call that gave the alias work to a collection that
\* holds an item
C24_Witness ==
    /\ pure.fn = "SetAlias" /\ pure.val
    /\ last.op = "SetAlias" /\ last.result = "ok"
    /\ aliases["work"] \in collection_dbs
    /\ SecretsOf(Store, aliases["work"]) # {}

\* C25: delete_secret called on a secret that the call before it has deleted
\* succeeds again and changes nothing in the store.
C25_DeleteSecretTwice ==
    [][\A t \in Tasks, u \in Tasks, path \in ItemPaths :
         (/\ u # t
          /\ HasInterface(objects, path, "Item")
          /\ tasks[u].op = "Item.Delete" /\ tasks[u].pc = "signal"
          /\ tasks[u].id = objects[path].collection_id
          /\ tasks[u].secret = objects[path].id
          /\ files[<<tasks[u].id, tasks[u].secret>>] = NoFile
          /\ ItemDeleteStore(t, path))
         => /\ tasks'[t].pc = "signal"
            /\ UNCHANGED storeVars]_vars

\* C26: for the plain and the DH transport and every payload, decrypt of the
\* Secret that encrypt made of the payload, by the same session, returns the payload.
C26_DecryptOfEncrypt ==
    pure.fn = "decrypt(encrypt)"
        => pure.val = [result |-> "ok", val |-> pure.arg[2]]

\* a DH session has decrypted what it encrypted, a payload of more than one block
\* under a key and an IV that are not zero, and has returned the payload
C26_Witness ==
    /\ pure.fn = "decrypt(encrypt)"
    /\ pure.arg[1].algorithm = "dh-ietf1024-sha256-aes128-cbc-pkcs7"
    /\ pure.arg[1].shared_key = <<1, 2>>
    /\ pure.arg[3] = <<2, 3>>
    /\ Len(pure.arg[2]) = BLOCK_SIZE + 1
    /\ pure.val.val = pure.arg[2]

\* C27: the shared secret given to HKDF is Y^x mod p in big-endian, padded with
\* zero bytes on the left to the length of the prime, so that the server's AES key
\* is the key of the client that pads its X^y mod p in the same way.
C27_SharedSecretIsLeftPadded ==
    pure.fn = "OpenSession"
        => LET Y == from_bytes_be(pure.arg[1])
               x == pure.arg[2]
               X == from_bytes_be(pure.val.pub_key)
               Z == modpow(Y, x, DH_SECOND_OAKLEY_PRIME)
           IN  /\ pure.val.transfer.shared_secret = left_padded(to_bytes_be(Z))
               /\ \A y \in Exponents :
                      Y = modpow(TWO, y, DH_SECOND_OAKLEY_PRIME)
                          => pure.val.transfer.shared_key
                                 = hkdf(left_padded(to_bytes_be(
                                            modpow(X, y, DH_SECOND_OAKLEY_PRIME))))

\* C28: the public value that OpenSession returns for the DH algorithm has the
\* length of the prime: 2^x mod p in big-endian, padded with zero bytes on the left.
C28_PublicValueHasKeyLength ==
    pure.fn = "OpenSession"
        => /\ Len(pure.val.pub_key) = KEY_BYTES
           /\ pure.val.pub_key
                  = left_padded(to_bytes_be(modpow(TWO, pure.arg[2], DH_SECOND_OAKLEY_PRIME)))

\* C29: decrypt by a DH session of a Secret whose parameters have not the length
\* of an IV, whose value is not a whole number of blocks or whose padding is
\* invalid returns an encryption error, and the store is as it was.
C29_BadSecretIsAnEncryptionError ==
    (/\ pure.fn = "decrypt"
     /\ pure.arg[1].algorithm = "dh-ietf1024-sha256-aes128-cbc-pkcs7"
     /\ \/ Len(pure.arg[2]) # BLOCK_SIZE
        \/ Len(pure.arg[3]) % BLOCK_SIZE # 0
        \/ pkcs7_unpad(cbc_decrypt(pure.arg[1].shared_key, pure.arg[2], pure.arg[3])) = None)
        => /\ pure.val.result = "EncryptionError"
           /\ Store = service_init(EmptyStore, CollectionIdPool[1]).st

\* C31: create_secret returns an id that no secret of the collection has: a
\* CreateItem call that creates an item leaves the file, the label and the
\* attributes of every secret the collection had as they were.
C31_CreatedIdIsUnused ==
    [][\A session \in SessionIds, attrs \in AttrMaps, secret_id \in SecIds,
          value \in Payloads, label \in Labels :
         (/\ CreateItem(DefaultAlias, Client1, session, value, label, attrs, FALSE,
                        secret_id, NoPair)
          /\ last'.result = "ok")
         => LET c == objects[DefaultAlias].collection_id
            IN  /\ last'.ret \cap {secret_path(c, s) : s \in SecretsOf(Store, c)} = {}
                /\ \A s \in SecretsOf(Store, c) :
                       /\ files'[<<c, s>>] = files[<<c, s>>]
                       /\ secret_labels'[<<c, s>>] = secret_labels[<<c, s>>]
                       /\ attributes_reverse'[<<c, s>>] = attributes_reverse[<<c, s>>]]_vars

\* C32: after start-up, for every alias that the alias table maps to a collection,
\* a Collection object of that collection is registered at the alias path and an
\* Item object at the alias path of every secret of the collection.
C32_StartupRegistersEveryAlias ==
    [][\A new_id \in NewIds \ dirs :
         Restart(new_id)
         => \A a \in Aliases :
                aliases'[a] # None
                => /\ objects'[alias_path(a)] = CollectionObject(aliases'[a])
                   /\ \A s \in SecIds :
                          files'[<<aliases'[a], s>>] # NoFile
                          => objects'[secret_alias_path(a, s)] = ItemObject(aliases'[a], s)]_vars

\* C40: decode_int of the bytes that encode_int wrote for an integer of a u32
\* returns the integer and stops right behind those bytes.
C40_DecodeOfEncodeInt ==
    pure.fn = "decode_int(encode_int)"
        => pure.val = [ok |-> TRUE, val |-> pure.arg[1],
                       pos |-> Len(encode_int(pure.arg[1]))]

\* the largest integer of a u32 was written in five bytes, with a byte behind
\* them, and read back
C40_Witness ==
    /\ pure.fn = "decode_int(encode_int)"
    /\ pure.arg = <<U32_MAX, <<U8_MAX>>>>
    /\ pure.val.val = U32_MAX /\ pure.val.pos = 5

\* C33: from_bytes of the bytes that as_bytes wrote for an attribute map is the map.
C33_HashMapRoundTrip ==
    pure.fn = "from_bytes(as_bytes)"
        => pure.val = [result |-> "ok",
                       val |-> {pure.arg[i] : i \in DOMAIN pure.arg}]

\* a map of five pairs, with an empty key, a key of five bytes and a value of six
\* bytes, whose lengths take three bytes each, was written and read back
C33_Witness ==
    /\ pure.fn = "from_bytes(as_bytes)"
    /\ Len(pure.arg) = NumKeys
    /\ \E i, j, k \in DOMAIN pure.arg :
           /\ pure.arg[i][1] = <<>>
           /\ Len(pure.arg[j][1]) = U8_MAX - 2
           /\ Len(pure.arg[k][2]) = U8_MAX - 1
    /\ Cardinality(pure.val.val) = NumKeys

\* C34: start-up on a store in which the alias default maps to a collection
\* changes nothing in the store: the labels of the collections, the label of the
\* default collection among them, are after start-up what they were before.
C34_StartupKeepsTheStore ==
    [][\A new_id \in NewIds \ dirs :
         (aliases[DEFAULT_COLLECTION_NAME] \in collection_dbs /\ Restart(new_id))
         => /\ labels' = labels
            /\ UNCHANGED storeVars]_vars

\* C35: a SetAlias call that returns an error leaves the objects, the alias table
\* and the reverse alias table as they were before the call.
C35_FailedSetAliasChangesNothing ==
    [][\A name \in GivenNames, collection \in TargetPaths :
         (SetAlias(name, collection) /\ last'.result # "ok")
         => UNCHANGED <<objects, aliases, aliases_reverse>>]_vars

\* C36: after a successful SetAlias call a Collection object is registered at the
\* alias path if and only if the alias table maps the alias to a collection, and
\* the object is that collection; the target may be an alias path.
C36_AliasObjectIsTheAliasTable ==
    [][\A name \in GivenNames, collection \in TargetPaths :
         (SetAlias(name, collection) /\ last'.result = "ok")
         => LET alias == slugify(name)
            IN  /\ HasInterface(objects', alias_path(alias), "Collection")
                       <=> aliases'[alias] # None
                /\ aliases'[alias] # None
                       => objects'[alias_path(alias)] = CollectionObject(aliases'[alias])]_vars

\* C37: a GetSecret or GetSecrets call that is rejected with permission denied
\* leaves the last-access record of every item as it was.
C37_DeniedReadKeepsLastAccess ==
    [][\A sender \in Clients, session \in SessionIds :
         ((\/ \E path \in ItemPaths : GetSecret(path, sender, session)
           \/ \E items \in ItemLists : GetSecrets(items, sender, session))
          /\ last'.result = "AccessDenied")
         => UNCHANGED last_access]_vars

\* C39: a successful change of an item through the property Attributes or the
\* property Label emits ItemChanged for the item on the path of its collection
\* and on the path of every alias of the collection.
C39_PropertyChangeEmitsItemChanged ==
    [][\A path \in ItemPaths :
         ((\/ \E attrs \in AttrMaps : SetAttributes(path, attrs)
           \/ \E label \in GivenLabels : SetLabel(path, label))
          /\ last'.result = "ok")
         => LET c == objects[path].collection_id
                item == secret_path(c, objects[path].id)
                on == {collection_path(c)}
                          \cup {alias_path(a) : a \in list_aliases_for_collection(Store, c).val}
            IN  \A p \in on :
                    \E i \in DOMAIN last'.signals :
                        last'.signals[i] = Signal(p, "ItemChanged", item)]_vars

\* C38: when Collection.Delete on a collection and the CreateItem calls that were
\* in flight on it have all completed, the directory of the collection does not
\* exist and holds no file.
C38_DeletedCollectionLeavesNoDirectory ==
    \A c \in NewIds :
        (/\ c \notin collection_dbs
         /\ \A t \in Tasks : Free(t))
        => /\ c \notin dirs
           /\ SecretsOf(Store, c) = {}

====
